---- MODULE Spec2Model ----
(***************************************************************************)
(* Model of the PMC ingestion pipeline of utils/es_utils.py:               *)
(* sanitize_document (the Document Sanitizer) and bulk_index_pmc_documents *)
(* (the Bulk Loader) driving an abstract Index Service.                    *)
(*                                                                         *)
(* Python strings and lists are kept run-length encoded: a sequence of     *)
(* runs [c |-> element, n |-> repetitions], adjacent runs holding          *)
(* different elements.  This keeps the source's real limits (500, 5000,    *)
(* 100000, 20, ...) while the inputs stay small.                           *)
(***************************************************************************)
EXTENDS Integers, Sequences, FiniteSets, TLC

(***************************************************************************)
(* Run-length encoded sequences                                            *)
(***************************************************************************)
RECURSIVE Norm(_)
\* canonical form: no empty run, adjacent runs merged when equal
Norm(s) ==
    IF s = <<>> THEN <<>>
    ELSE IF Head(s).n = 0 THEN Norm(Tail(s))
    ELSE LET r == Norm(Tail(s)) IN
         IF r # <<>> /\ Head(r).c = Head(s).c
         THEN <<[c |-> Head(s).c, n |-> Head(s).n + Head(r).n]>> \o Tail(r)
         ELSE <<Head(s)>> \o r

RECURSIVE RLen(_)
\* len(x)
RLen(s) == IF s = <<>> THEN 0 ELSE Head(s).n + RLen(Tail(s))

RECURSIVE RTake(_, _)
\* x[:k]
RTake(s, k) ==
    IF s = <<>> \/ k <= 0 THEN <<>>
    ELSE IF Head(s).n >= k THEN <<[c |-> Head(s).c, n |-> k]>>
    ELSE <<Head(s)>> \o RTake(Tail(s), k - Head(s).n)

\* x + y
Cat(s, t) == Norm(s \o t)

\* a literal, from its characters
Lit(chars) == Norm([k \in 1..Len(chars) |-> [c |-> chars[k], n |-> 1]])

\* c repeated k times
Rep(ch, k) == Norm(<<[c |-> ch, n |-> k]>>)

\* str.isspace of one character
IsSpace(ch) == ch \in {" ", "\t", "\n", "\r", "\f"}

RECURSIVE LStrip(_)
LStrip(s) == IF s # <<>> /\ IsSpace(Head(s).c) THEN LStrip(Tail(s)) ELSE s

RECURSIVE RStrip(_)
RStrip(s) ==
    IF s # <<>> /\ IsSpace(s[Len(s)].c) THEN RStrip(SubSeq(s, 1, Len(s) - 1)) ELSE s

\* str.strip()
Strip(s) == RStrip(LStrip(s))

\* ch in x
Contains(s, ch) == \E k \in 1..Len(s) : s[k].c = ch

Digits == <<"0", "1", "2", "3", "4", "5", "6", "7", "8", "9">>

RECURSIVE IntStr(_)
\* str(i) of a natural number
IntStr(i) ==
    IF i < 10 THEN Lit(<<Digits[i + 1]>>)
    ELSE Cat(IntStr(i \div 10), Lit(<<Digits[(i % 10) + 1]>>))

(***************************************************************************)
(* Python values.  A scalar is a str, an int, None, or a missing dict key. *)
(***************************************************************************)
Missing == [t |-> "missing", s |-> <<>>, i |-> 0]
PyNone  == [t |-> "none", s |-> <<>>, i |-> 0]
Str(runs) == [t |-> "str", s |-> runs, i |-> 0]
PyInt(k) == [t |-> "int", s |-> <<>>, i |-> k]

\* dict.get(key) / dict.get(key, default)
Get(v)     == IF v.t = "missing" THEN PyNone ELSE v
GetD(v, d) == IF v.t = "missing" THEN d ELSE v

\* bool(v)
Truthy(v) ==
    CASE v.t = "str" -> v.s # <<>>
      [] v.t = "int" -> v.i # 0
      [] OTHER -> FALSE

\* str(v)
PyStr(v) ==
    CASE v.t = "str" -> v.s
      [] v.t = "int" -> IntStr(v.i)
      [] OTHER -> Lit(<<"N", "o", "n", "e">>)

UnknownJournal ==
    Lit(<<"U", "n", "k", "n", "o", "w", "n", " ", "J", "o", "u", "r", "n", "a", "l">>)
ResearchArticle ==
    Lit(<<"r", "e", "s", "e", "a", "r", "c", "h", "-", "a", "r", "t", "i", "c", "l", "e">>)
DocPrefix == Lit(<<"d", "o", "c", "_">>)

\* containers: t says what the value is, the payload is empty unless it fits
MissingList == [t |-> "missing", l |-> <<>>]
List(runs)  == [t |-> "list", l |-> runs]
NotAList    == [t |-> "other", l |-> <<>>]
MissingJournal == [t |-> "missing", title |-> Missing, issn |-> Missing]
Journal(ti, is) == [t |-> "dict", title |-> ti, issn |-> is]
NotAJournal == [t |-> "other", title |-> Missing, issn |-> Missing]
Author(fn, oc) == [t |-> "dict", full_name |-> fn, orcid |-> oc]
NotAnAuthor == [t |-> "other", full_name |-> Missing, orcid |-> Missing]
MissingSections == [t |-> "missing", l |-> <<>>]
Sections(pairs) == [t |-> "dict", l |-> pairs]
NotSections == [t |-> "other", l |-> <<>>]

\* a dict with every key missing
EmptyDoc ==
    [t |-> "dict", doi |-> Missing, pmcid |-> Missing, pmid |-> Missing,
     title |-> Missing, abstract |-> Missing, full_text |-> Missing,
     authors |-> MissingList, journal |-> MissingJournal,
     publication_date |-> Missing, article_type |-> Missing,
     keywords |-> MissingList, sections |-> MissingSections,
     processed_at |-> Missing]
\* the value None where a dict is expected
NoneDoc == [EmptyDoc EXCEPT !.t = "none"]
\* a value that is not a dict (no .get)
NotADict == [EmptyDoc EXCEPT !.t = "other"]
\* an exception leaving the body of a function
Raised == [EmptyDoc EXCEPT !.t = "raise"]

(***************************************************************************)
(* sanitize_document                                                       *)
(***************************************************************************)
TitleMax     == 500
AbstractMax  == 5000
FullTextMax  == 100000
AuthorsMax   == 20
NameMax      == 100
JournalMax   == 200
KeywordsMax  == 20
SectionKeyMax == 50
SectionMax   == 10000
DateLen      == 10

\* str(v).strip()
Stripped(v) == Strip(PyStr(v))

\* the test and the body of the loop over authors[:20]
AuthorOk(a) == a.t = "dict" /\ Truthy(Get(a.full_name))
CleanAuthor(a) ==
    Author(Str(RTake(Stripped(a.full_name), NameMax)),
           IF Truthy(Get(a.orcid)) THEN Str(Stripped(a.orcid)) ELSE Missing)

SanitizeAuthors(authors) ==
    LET v == IF authors.t = "missing" THEN List(<<>>) ELSE authors IN
    IF v.t # "list" THEN MissingList
    ELSE LET firsts == RTake(v.l, AuthorsMax)
             kept == SelectSeq(firsts, LAMBDA r : AuthorOk(r.c))
         IN List(Norm([k \in 1..Len(kept) |->
                        [c |-> CleanAuthor(kept[k].c), n |-> kept[k].n]]))

\* mutant: the [:20] left out
SanitizeKeywords_uncapped(keywords) ==
    LET v == IF keywords.t = "missing" THEN List(<<>>) ELSE keywords IN
    IF v.t # "list" THEN MissingList
    ELSE LET kept == SelectSeq(v.l, LAMBDA r : Truthy(r.c))
         IN List(Norm([k \in 1..Len(kept) |->
                        [c |-> Str(Stripped(kept[k].c)), n |-> kept[k].n]]))

SanitizeKeywords(keywords) ==
    LET v == IF keywords.t = "missing" THEN List(<<>>) ELSE keywords IN
    IF v.t # "list" THEN MissingList
    ELSE LET kept == SelectSeq(v.l, LAMBDA r : Truthy(r.c))
             clean == Norm([k \in 1..Len(kept) |->
                        [c |-> Str(Stripped(kept[k].c)), n |-> kept[k].n]])
         IN List(RTake(clean, KeywordsMax))

SanitizeJournal(journal) ==
    LET v == IF journal.t = "missing" THEN Journal(Missing, Missing) ELSE journal IN
    IF v.t # "dict" THEN MissingJournal
    ELSE Journal(Str(RTake(Stripped(GetD(v.title, Str(UnknownJournal))), JournalMax)),
                 Str(Stripped(GetD(v.issn, Str(<<>>)))))

RECURSIVE DictSet(_, _, _)
\* d[key] = value on a dict kept as its items in insertion order
DictSet(d, key, value) ==
    IF d = <<>> THEN <<[k |-> key, v |-> value]>>
    ELSE IF Head(d).k = key THEN <<[k |-> key, v |-> value]>> \o Tail(d)
    ELSE <<Head(d)>> \o DictSet(Tail(d), key, value)

RECURSIVE CleanSections(_, _)
CleanSections(items, acc) ==
    IF items = <<>> THEN acc
    ELSE LET key == Head(items).k
             value == Head(items).v
             clean_key == RTake(Stripped(key), SectionKeyMax)
             clean_value == RTake(Stripped(value), SectionMax)
         IN IF Truthy(key) /\ Truthy(value) /\ clean_key # <<>> /\ clean_value # <<>>
            THEN CleanSections(Tail(items), DictSet(acc, Str(clean_key), Str(clean_value)))
            ELSE CleanSections(Tail(items), acc)

SanitizeSections(sections) ==
    LET v == IF sections.t = "missing" THEN Sections(<<>>) ELSE sections IN
    IF v.t # "dict" THEN MissingSections
    ELSE Sections(CleanSections(v.l, <<>>))

SanitizeDate(d) ==
    IF Truthy(Get(d))
    THEN LET date_str == Stripped(d) IN
         IF RLen(date_str) = DateLen /\ Contains(date_str, "-")
         THEN Str(date_str) ELSE Missing
    ELSE Missing

\* "if x: sanitized[key] = str(x).strip()[:limit]"
SanitizeText(x, limit) ==
    IF Truthy(GetD(x, Str(<<>>))) THEN Str(RTake(Stripped(x), limit)) ELSE Missing

\* mutants: a check that was left out
HasIdentifier_unchecked(doc) == doc.t = "dict"
HasTitle_unchecked(doc) == doc.t = "dict"

\* the identifier and title checks that open the function
HasIdentifier(doc) ==
    Truthy(Get(doc.doi)) \/ Truthy(Get(doc.pmcid)) \/ Truthy(Get(doc.pmid))
HasTitle(doc) == Truthy(Get(doc.title))

\* the body of the try block: a sanitized dict, None, or an exception
sanitize_body(doc) ==
    IF doc.t # "dict" THEN Raised
    ELSE IF ~HasIdentifier(doc) THEN NoneDoc
    ELSE IF ~HasTitle(doc) THEN NoneDoc
    ELSE [t |-> "dict",
          doi |-> Str(Stripped(GetD(doc.doi, Str(<<>>)))),
          pmcid |-> Str(Stripped(GetD(doc.pmcid, Str(<<>>)))),
          pmid |-> Str(Stripped(GetD(doc.pmid, Str(<<>>)))),
          title |-> Str(RTake(Stripped(GetD(doc.title, Str(<<>>))), TitleMax)),
          abstract |-> SanitizeText(doc.abstract, AbstractMax),
          full_text |-> SanitizeText(doc.full_text, FullTextMax),
          authors |-> SanitizeAuthors(doc.authors),
          journal |-> SanitizeJournal(doc.journal),
          publication_date |-> SanitizeDate(doc.publication_date),
          article_type |-> Str(Stripped(GetD(doc.article_type, Str(ResearchArticle)))),
          keywords |-> SanitizeKeywords(doc.keywords),
          sections |-> SanitizeSections(doc.sections),
          processed_at |-> Get(doc.processed_at)]

\* mutant: no try/except around the body
sanitize_document_uncaught(doc) == sanitize_body(doc)

\* try: body / except Exception: return None
sanitize_document(doc) ==
    LET r == sanitize_body(doc) IN IF r.t = "raise" THEN NoneDoc ELSE r

(***************************************************************************)
(* PMCXMLParser (utils/pmc_parser.py)                                      *)
(*                                                                         *)
(* An element's text is a scalar: Missing when find() returns None, PyNone *)
(* when the element has no text, else a str.                               *)
(***************************************************************************)
\* the characters of a run-length encoded string, one by one
RECURSIVE Expand(_)
Expand(s) ==
    IF s = <<>> THEN <<>>
    ELSE IF Head(s).n = 0 THEN Expand(Tail(s))
    ELSE <<Head(s).c>> \o Expand(<<[c |-> Head(s).c, n |-> Head(s).n - 1]>> \o Tail(s))

\* "elem.text.strip() if elem is not None and elem.text else ''"
ElemText(e) == IF e.t = "str" /\ e.s # <<>> THEN Strip(e.s) ELSE <<>>

\* _extract_doi, _extract_pmcid, _extract_pmid
_extract_id(e) == ElemText(e)

RECURSIVE Join(_)
\* " ".join(parts)
Join(parts) ==
    IF parts = <<>> THEN <<>>
    ELSE IF Len(parts) = 1 THEN Head(parts)
    ELSE Cat(Cat(Head(parts), Lit(<<" ">>)), Join(Tail(parts)))

\* the part a text node adds to text_parts: nothing when it is None or empty
TextPart(v) == IF v.t = "str" /\ v.s # <<>> THEN <<v.s>> ELSE <<>>

RECURSIVE KidParts(_)
\* the loop over the children: the child's own text content, then its tail
KidParts(kids) ==
    IF kids = <<>> THEN <<>>
    ELSE TextPart(Head(kids).text) \o TextPart(Head(kids).tail) \o KidParts(Tail(kids))

\* _extract_text_content of an element whose children are leaves
_extract_text_content(element) ==
    IF ~element.present THEN <<>>
    ELSE Join(TextPart(element.text) \o KidParts(element.kids))

\* [\x00-\x08\x0B\x0C\x0E-\x1F\x7F]; "DEL" stands for the character \x7F, the
\* one of them a well-formed XML file can hold
IsControl(ch) == ch \in {"\f", "DEL"}

\* _clean_text: control characters removed, whitespace runs made one space,
\* three or more periods made three, then strip()
_clean_text(text) ==
    LET no_control == Norm(SelectSeq(text, LAMBDA r : ~IsControl(r.c)))
        spaces == Norm([k \in 1..Len(no_control) |->
                    IF IsSpace(no_control[k].c)
                    THEN [c |-> " ", n |-> no_control[k].n] ELSE no_control[k]])
        one_space == [k \in 1..Len(spaces) |->
                    IF spaces[k].c = " " THEN [c |-> " ", n |-> 1] ELSE spaces[k]]
        periods == [k \in 1..Len(one_space) |->
                    IF one_space[k].c = "." /\ one_space[k].n >= 3
                    THEN [c |-> ".", n |-> 3] ELSE one_space[k]]
    IN Strip(periods)

\* _extract_title
_extract_title(title_elem) ==
    IF title_elem.present THEN _clean_text(_extract_text_content(title_elem)) ELSE <<>>

\* str.zfill(2)
Zfill2(s) ==
    IF RLen(s) >= 2 THEN s
    ELSE IF RLen(s) = 0 THEN Rep("0", 2)
    ELSE IF s[1].c \in {"+", "-"} THEN Cat(s, Rep("0", 1))
    ELSE Cat(Rep("0", 1), s)

IsDigit(ch) == \E d \in 1..10 : Digits[d] = ch
DigitVal(ch) == (CHOOSE d \in 1..10 : Digits[d] = ch) - 1
AllDigits(chars) == \A k \in 1..Len(chars) : IsDigit(chars[k])
RECURSIVE ToInt(_)
\* int(x) of a string of digits
ToInt(chars) ==
    IF chars = <<>> THEN 0
    ELSE 10 * ToInt(SubSeq(chars, 1, Len(chars) - 1)) + DigitVal(chars[Len(chars)])

IsLeap(y) == y % 4 = 0 /\ (y % 100 # 0 \/ y % 400 = 0)
DaysInMonth(y, m) ==
    IF m = 2 THEN (IF IsLeap(y) THEN 29 ELSE 28)
    ELSE IF m \in {4, 6, 9, 11} THEN 30 ELSE 31

\* datetime.strptime(f"{year}-{month}-{day}", '%Y-%m-%d') does not raise:
\* %Y is four digits, %m and %d (here of two characters or more) two digits
\* in range, and the day exists in that month of that year
StrptimeOk(year, month, day) ==
    LET y == Expand(year) m == Expand(month) d == Expand(day) IN
    /\ Len(y) = 4 /\ AllDigits(y) /\ ToInt(y) >= 1
    /\ Len(m) = 2 /\ AllDigits(m) /\ ToInt(m) \in 1..12
    /\ Len(d) = 2 /\ AllDigits(d) /\ ToInt(d) >= 1
    /\ ToInt(d) <= DaysInMonth(ToInt(y), ToInt(m))

Dash == Lit(<<"-">>)
DateStr(year, month, day) == Cat(Cat(Cat(Cat(year, Dash), month), Dash), day)

\* _parse_date of a pub-date element, given the texts of its year, month
\* and day children: the date string, or None
_parse_date(date_elem) ==
    IF Truthy(Get(date_elem.year))
    THEN LET year == Strip(date_elem.year.s)
             month == IF Truthy(Get(date_elem.month))
                      THEN Zfill2(Strip(date_elem.month.s)) ELSE Zfill2(Lit(<<"0", "1">>))
             day == IF Truthy(Get(date_elem.day))
                    THEN Zfill2(Strip(date_elem.day.s)) ELSE Zfill2(Lit(<<"0", "1">>))
         IN IF StrptimeOk(year, month, day)
            THEN Str(DateStr(year, month, day))
            ELSE Str(DateStr(year, Lit(<<"0", "1">>), Lit(<<"0", "1">>)))
    ELSE PyNone

\* _extract_publication_date, given the pub-date element the finds select
_extract_publication_date(source) ==
    IF source.date.present THEN _parse_date(source.date) ELSE PyNone

\* datetime.now().isoformat(): some timestamp
Now == Str(Lit(<<"n", "o", "w">>))

\* mutant: "if keyword not in keywords" left out
AddKeyword_no_dedup(keywords, keyword) == Append(keywords, keyword)

\* "if keyword not in keywords: keywords.append(keyword)"
AddKeyword(keywords, keyword) ==
    IF \E k \in 1..Len(keywords) : keywords[k] = keyword
    THEN keywords ELSE Append(keywords, keyword)

RECURSIVE _extract_keywords(_)
\* _extract_keywords, given the texts of the kwd elements the loops visit
_extract_keywords(texts) ==
    IF texts = <<>> THEN <<>>
    ELSE LET keywords == _extract_keywords(SubSeq(texts, 1, Len(texts) - 1))
             kwd == texts[Len(texts)]
         IN IF kwd.t = "str" /\ kwd.s # <<>> /\ Strip(kwd.s) # <<>>
            THEN AddKeyword(keywords, Strip(kwd.s))
            ELSE keywords

\* a Python list of strings, run-length encoded
StrList(strs) == List(Norm([k \in 1..Len(strs) |-> [c |-> Str(strs[k]), n |-> 1]]))

\* the dict built at pmc_parser.py:39-62 for a source without abstract, body,
\* contributors, journal title or article type
ExtractedDoc(source) ==
    [t |-> "dict",
     doi |-> Str(_extract_id(source.doi)),
     pmcid |-> Str(_extract_id(source.pmcid)),
     pmid |-> Str(_extract_id(source.pmid)),
     title |-> Str(_extract_title(source.title)),
     abstract |-> Str(<<>>), full_text |-> Str(<<>>),
     authors |-> List(<<>>),
     journal |-> Journal(Str(UnknownJournal), Missing),
     publication_date |-> _extract_publication_date(source),
     article_type |-> Str(ResearchArticle),
     keywords |-> StrList(_extract_keywords(source.kwds)),
     sections |-> Sections(<<>>),
     processed_at |-> Now]

\* mutant: the "if not doi and not pmcid and not pmid" check left out
parse_body_no_id_check(source) ==
    IF ~source.wellformed THEN Raised
    ELSE IF _extract_title(source.title) = <<>> THEN NoneDoc
    ELSE ExtractedDoc(source)

\* mutant: the "if not title" check left out
parse_body_no_title_check(source) ==
    IF ~source.wellformed THEN Raised
    ELSE IF /\ _extract_id(source.doi) = <<>> /\ _extract_id(source.pmcid) = <<>>
            /\ _extract_id(source.pmid) = <<>>
         THEN NoneDoc
    ELSE ExtractedDoc(source)

\* the body of the try block of parse_xml_file: ET.parse raises on a file
\* that is not well-formed XML
parse_body(source) ==
    IF ~source.wellformed THEN Raised
    ELSE IF /\ _extract_id(source.doi) = <<>> /\ _extract_id(source.pmcid) = <<>>
            /\ _extract_id(source.pmid) = <<>>
         THEN NoneDoc
    ELSE IF _extract_title(source.title) = <<>> THEN NoneDoc
    ELSE ExtractedDoc(source)

\* try: body / except Exception: return None
parse_xml_file(source) ==
    LET r == parse_body(source) IN IF r.t = "raise" THEN NoneDoc ELSE r

(***************************************************************************)
(* Inputs                                                                  *)
(***************************************************************************)
\* longest batch handed to the loader
MaxBatch == 3

S(chars) == Str(Lit(chars))
\* ch repeated k times, then the characters of tail
Long(ch, k, tail) == Str(Cat(Rep(ch, k), Lit(tail)))

WithIds(doi, pmcid, pmid, title) ==
    [EmptyDoc EXCEPT !.doi = doi, !.pmcid = pmcid, !.pmid = pmid, !.title = title]

\* records handed to the loader: natural identifiers, whitespace-only and
\* None identifiers, rejected records, a value that is no dict, and an
\* identifier that reads like a positional one
LoaderDocs ==
    { WithIds(S(<<"a">>), Missing, Missing, S(<<"T">>)),
      WithIds(S(<<>>), S(<<"b">>), S(<<"c">>), S(<<"T">>)),
      WithIds(S(<<" ">>), Missing, S(<<>>), S(<<"T">>)),
      WithIds(PyNone, S(<<>>), S(<<"c">>), S(<<"T">>)),
      WithIds(S(<<>>), S(<<>>), S(<<>>), S(<<"T">>)),
      WithIds(S(<<"a">>), S(<<"b">>), Missing, S(<<>>)),
      WithIds(S(<<"d", "o", "c", "_", "1">>), Missing, Missing, S(<<"T">>)),
      NotADict }

Batches == UNION { [1..n -> LoaderDocs] : n \in 0..MaxBatch }

DoiValues ==
    { Missing, PyNone, S(<<>>), S(<<" ">>), S(<<"a">>), S(<<" ", "a", " ">>),
      PyInt(0), PyInt(7) }
PmcidValues == { Missing, S(<<>>), S(<<" ">>), S(<<"b">>) }
PmidValues == { S(<<>>), S(<<"c">>), PyNone }
TitleValues ==
    { Missing, S(<<>>), S(<<" ">>), S(<<"T">>), PyInt(5),
      Long("a", TitleMax - 1, <<" ", "b", "b">>),
      Str(Cat(Lit(<<" ">>), Rep("a", TitleMax + 100))) }

GoodAuthor == Author(S(<<"n">>), S(<<"o">>))
LongAuthor == Author(Long("n", NameMax - 1, <<" ", "m">>), Missing)

\* the other fields of a record, varied together
Profile(p) ==
    CASE p = 1 -> EmptyDoc
      [] p = 2 ->
         [EmptyDoc EXCEPT
            !.abstract = S(<<"a", "b">>), !.full_text = S(<<"x">>),
            !.authors = List(<<[c |-> GoodAuthor, n |-> 1]>>),
            !.journal = Journal(S(<<"J">>), S(<<"1">>)),
            !.publication_date =
                S(<<"2", "0", "2", "0", "-", "0", "1", "-", "0", "1">>),
            !.article_type = S(<<"r">>),
            !.keywords = List(<<[c |-> S(<<"k">>), n |-> 1], [c |-> S(<<"l">>), n |-> 1]>>),
            !.sections = Sections(<<[k |-> S(<<"i">>), v |-> S(<<"t">>)]>>),
            !.processed_at = S(<<"p">>)]
      [] p = 3 ->
         [EmptyDoc EXCEPT
            !.abstract = Long("a", AbstractMax - 1, <<" ", "b">>),
            !.full_text = Long("x", FullTextMax + 1, <<>>),
            !.authors = List(<<[c |-> LongAuthor, n |-> AuthorsMax + 5]>>),
            !.journal = Journal(Long("J", JournalMax + 1, <<>>), S(<<" ", "1">>)),
            !.publication_date =
                S(<<" ", "2", "0", "2", "0", "-", "0", "1", "-", "0", "1">>),
            !.keywords = List(<<[c |-> S(<<"k">>), n |-> KeywordsMax],
                                [c |-> S(<<"l">>), n |-> 1]>>),
            !.sections = Sections(<<[k |-> Long("k", SectionKeyMax - 1, <<" ", "z">>),
                                     v |-> Long("v", SectionMax + 1, <<>>)]>>)]
      [] p = 4 ->
         [EmptyDoc EXCEPT
            !.abstract = PyInt(3), !.full_text = PyNone,
            !.authors = NotAList, !.journal = NotAJournal,
            !.publication_date = PyInt(20200101), !.article_type = PyNone,
            !.keywords = NotAList, !.sections = NotSections,
            !.processed_at = PyNone]
      [] p = 5 ->
         [EmptyDoc EXCEPT
            !.abstract = S(<<" ">>), !.full_text = S(<<" ", "x">>),
            !.authors = List(<<[c |-> Author(S(<<" ">>), Missing), n |-> 1],
                               [c |-> NotAnAuthor, n |-> 1],
                               [c |-> Author(S(<<"x">>), S(<<" ">>)), n |-> 1]>>),
            !.journal = Journal(S(<<" ">>), Missing),
            !.publication_date = S(<<"2", "0", "2", "0", "-", "1", "-", "1", " ", " ">>),
            !.article_type = S(<<" ">>),
            !.keywords = List(<<[c |-> S(<<" ">>), n |-> 1], [c |-> S(<<>>), n |-> 1],
                                [c |-> S(<<"k", " ">>), n |-> 1], [c |-> S(<<"k">>), n |-> 1]>>),
            !.sections = Sections(<<[k |-> S(<<" ">>), v |-> S(<<"v">>)],
                                    [k |-> S(<<"k">>), v |-> S(<<" ">>)],
                                    [k |-> S(<<"k", " ">>), v |-> S(<<"w">>)],
                                    [k |-> S(<<"k">>), v |-> S(<<"u">>)]>>)]
      [] OTHER ->
         [EmptyDoc EXCEPT
            !.authors = List(<<[c |-> Author(Missing, Missing), n |-> 1],
                               [c |-> GoodAuthor, n |-> AuthorsMax]>>),
            !.journal = Journal(Missing, S(<<"1">>)),
            !.publication_date =
                S(<<"a", "b", "c", "d", "e", "f", "g", "h", "-", "j">>),
            !.keywords = List(<<[c |-> S(<<>>), n |-> 1],
                                [c |-> S(<<"k">>), n |-> KeywordsMax + 1]>>)]
Profiles == 1..6

\* everything sanitize_document is applied to on its own
SanitizeInputs ==
    { [Profile(p) EXCEPT !.doi = d, !.pmcid = c, !.pmid = m, !.title = ti] :
        d \in DoiValues, c \in PmcidValues, m \in PmidValues,
        ti \in TitleValues, p \in Profiles }
    \cup { NotADict, NoneDoc }

\* an element: its own text and its children, each a leaf with text and tail
NoElement == [present |-> FALSE, text |-> Missing, kids |-> <<>>]
Element(text, kids) == [present |-> TRUE, text |-> text, kids |-> kids]
Kid(text, tail) == [text |-> text, tail |-> tail]
\* a pub-date element with the texts of its year, month and day children
NoDate == [present |-> FALSE, year |-> Missing, month |-> Missing, day |-> Missing]
PubDate(y, m, d) == [present |-> TRUE, year |-> y, month |-> m, day |-> d]

\* a source file; kwds holds the texts of its kwd elements, in document order
Source(wf, doi, pmcid, pmid, title, date) ==
    [wellformed |-> wf, doi |-> doi, pmcid |-> pmcid, pmid |-> pmid,
     title |-> title, date |-> date, kwds |-> <<>>]
WithKeywords(src, texts) == [src EXCEPT !.kwds = texts]

SourceDois == { Missing, PyNone, S(<<" ">>), S(<<" ", "a", " ">>) }
SourcePmcids == { Missing, S(<<"b">>) }
SourcePmids == { Missing, S(<<"\n">>), S(<<"c">>) }
SourceTitles ==
    { NoElement,
      Element(PyNone, <<>>),
      Element(S(<<" ", "DEL", " ">>), <<>>),
      Element(S(<<"T">>), <<>>),
      Element(S(<<" ", "A", "\n", "\n", "b", ".", ".", ".", ".">>), <<>>),
      Element(PyNone, <<Kid(S(<<"i">>), S(<<" ", "x", " ">>))>>),
      Element(S(<<"\n">>), <<Kid(PyNone, S(<<" ">>))>>) }
YearTexts ==
    { Missing, PyNone, S(<<" ">>), S(<<"2", "0", "2", "0">>),
      S(<<" ", "2", "0", "2", "1", " ">>), S(<<"a", "b", "c", "d">>),
      S(<<"2", "0">>), S(<<"0", "0", "0", "0">>) }
MonthTexts ==
    { Missing, PyNone, S(<<"3">>), S(<<"0", "2">>), S(<<"1", "3">>), S(<<"x">>) }
DayTexts ==
    { Missing, S(<<"5">>), S(<<"2", "9">>), S(<<"3", "1">>), S(<<"9", "9">>),
      S(<<"-">>) }
SourceDates ==
    {NoDate} \cup { PubDate(y, m, d) : y \in YearTexts, m \in MonthTexts, d \in DayTexts }
SomeDates ==
    { NoDate, PubDate(S(<<"2", "0", "2", "0">>), S(<<"3">>), S(<<"5">>)),
      PubDate(S(<<"a", "b", "c", "d">>), Missing, Missing) }

\* the kwd texts of a source: up to MaxKeywords of them
MaxKeywords == 3
KwdTexts ==
    { PyNone, S(<<" ">>), S(<<"A", "I">>), S(<<" ", "A", "I", " ">>), S(<<"a", "i">>),
      S(<<"m", "l">>) }
KeywordTexts == UNION { [1..n -> KwdTexts] : n \in 1..MaxKeywords }

\* a file that is not well-formed XML
Unparseable == Source(FALSE, Missing, Missing, Missing, NoElement, NoDate)

\* everything parse_xml_file is applied to on its own
Sources ==
    { Source(TRUE, d, c, m, ti, dt) :
        d \in SourceDois, c \in SourcePmcids, m \in SourcePmids,
        ti \in SourceTitles, dt \in SomeDates }
    \cup { Source(TRUE, S(<<"a">>), Missing, Missing, Element(S(<<"T">>), <<>>), dt) :
             dt \in SourceDates }
    \cup { Unparseable }
    \cup { WithKeywords(Source(TRUE, S(<<"a">>), Missing, Missing,
                               Element(S(<<"T">>), <<>>), NoDate), texts) :
             texts \in KeywordTexts }

\* the directories index_pmc_xml_directory is run on: up to MaxFiles files,
\* each unparseable or one of two sources that give a record
MaxFiles == 4
MaxBatchSize == 2
FileA == Source(TRUE, S(<<"a">>), Missing, Missing, Element(S(<<"T">>), <<>>), NoDate)
FileB ==
    Source(TRUE, Missing, S(<<"b">>), Missing,
           Element(PyNone, <<Kid(S(<<"i">>), S(<<" ", "x", " ">>))>>), NoDate)
\* a later version of the article of FileA: the same doi, another title
FileC == Source(TRUE, S(<<"a">>), Missing, Missing, Element(S(<<"U">>), <<>>), NoDate)
DirFiles == { Unparseable, FileA, FileB }
\* directories holding the two versions of one article, up to MaxVersions files
MaxVersions == 3
VersionDirectories == UNION { [1..n -> {FileA, FileC}] : n \in 2..MaxVersions }
Directories == UNION { [1..n -> DirFiles] : n \in 0..MaxFiles } \cup VersionDirectories
BatchSizes == 1..MaxBatchSize

\* documents in the index when an API request arrives, each under its key
Stored(key, d) == [_id |-> Lit(key), _source |-> d]
Date_2020_03_05 == S(<<"2", "0", "2", "0", "-", "0", "3", "-", "0", "5">>)
Date_2021_01_01 == S(<<"2", "0", "2", "1", "-", "0", "1", "-", "0", "1">>)
Review == S(<<"r", "e", "v", "i", "e", "w">>)
StoredA ==
    Stored(<<"a">>,
           [EmptyDoc EXCEPT !.doi = S(<<"a">>), !.title = S(<<"T">>),
                            !.full_text = S(<<"x">>),
                            !.authors = List(<<[c |-> GoodAuthor, n |-> 1]>>),
                            !.journal = Journal(S(<<"J">>), Missing),
                            !.publication_date = Date_2020_03_05,
                            !.article_type = Review,
                            !.sections = Sections(<<[k |-> S(<<"i">>), v |-> S(<<"t">>)]>>),
                            !.processed_at = Now])
\* stored under its pmcid; its publication_date is malformed, so not indexed
StoredB ==
    Stored(<<"b">>,
           [EmptyDoc EXCEPT !.pmcid = S(<<"b">>), !.pmid = S(<<"c">>),
                            !.title = S(<<"T">>),
                            !.journal = Journal(Str(UnknownJournal), Missing),
                            !.publication_date =
                                S(<<"a", "b", "c", "d", "-", "0", "1", "-", "0", "1">>),
                            !.article_type = Str(ResearchArticle)])
\* stored under a key that is none of its identifiers
StoredX ==
    Stored(<<"x">>,
           [EmptyDoc EXCEPT !.pmcid = S(<<"c">>), !.pmid = S(<<"a">>),
                            !.title = S(<<"T">>),
                            !.journal = Journal(S(<<"J">>), Missing),
                            !.publication_date = Date_2021_01_01,
                            !.article_type = Review])
\* written by another loader, without a title
StoredY == Stored(<<"y">>, [EmptyDoc EXCEPT !.doi = S(<<"y">>), !.article_type = Review])
StoredDocs == { StoredA, StoredB, StoredX, StoredY }
Indexes == SUBSET StoredDocs
DocIds == { Lit(<<"a">>), Lit(<<"b">>), Lit(<<"c">>), Lit(<<"z">>) }

\* the filters of a search: None, or a dict of the filters that were given
NoFilters ==
    [t |-> "none", article_type |-> Missing, journal |-> Missing, author |-> Missing,
     date_from |-> Missing, date_to |-> Missing]
Filters(at, j, a, df, dt) ==
    [t |-> "dict", article_type |-> at, journal |-> j, author |-> a,
     date_from |-> df, date_to |-> dt]
Date_2020_12_31 == S(<<"2", "0", "2", "0", "-", "1", "2", "-", "3", "1">>)
FilterInputs ==
    { NoFilters } \cup
    { Filters(at, j, a, df, dt) :
        at \in { Missing, S(<<>>), Review }, j \in { Missing, S(<<"J">>) },
        a \in { Missing, S(<<"n">>) }, df \in { Missing, Date_2020_03_05 },
        dt \in { Missing, Date_2020_12_31 } }
\* the indexes searched, the scores a text match can give (0: no match)
MaxHits == 2
MaxScore == 2
SearchIndexes == { ix \in Indexes : Cardinality(ix) <= MaxHits }

\* the loads whose retries are followed: up to MaxRetryBatch accepted records
MaxRetryBatch == 2
RetryDocs ==
    { WithIds(S(<<"a">>), Missing, Missing, S(<<"T">>)),
      WithIds(Missing, S(<<"b">>), Missing, S(<<"T">>)) }
RetryBatches == UNION { [1..n -> RetryDocs] : n \in 1..MaxRetryBatch }

\* the files load_jsonl is run on: up to MaxBlocks blocks of up to
\* MaxBlockLines lines; a line is valid JSON, invalid JSON, or valid JSON
\* holding a byte that is no UTF-8
MaxBlocks == 2
MaxBlockLines == 2
JsonlLines ==
    { [kind |-> "json", value |-> "v1"], [kind |-> "json", value |-> "v2"],
      [kind |-> "invalid", value |-> "none"], [kind |-> "bytes", value |-> "v3"] }
JsonlBlocks == UNION { [1..n -> JsonlLines] : n \in 1..MaxBlockLines }
JsonlFiles == UNION { [1..n -> JsonlBlocks] : n \in 0..MaxBlocks }

\* the part files of a restore: up to MaxParts files, each giving one of
\* these numbers of actions
MaxParts == 3
PartSizes == { 1, 499, 501, 1000 }
PartFiles == UNION { [1..n -> PartSizes] : n \in 0..MaxParts }

\* the API processes started against one Index Service, and the documents
\* a loader may write meanwhile
MaxProcs == 3
WrittenDocs == { "d1", "d2" }

\* the ingest runs: directories of up to MaxRunFiles files, and the part
\* files of a restore
MaxRunFiles == 2
RunDirectories == UNION { [1..n -> DirFiles] : n \in 0..MaxRunFiles }
RunPartFiles == { <<>>, <<1>>, <<501, 1>> }

(***************************************************************************)
(* State                                                                   *)
(***************************************************************************)
VARIABLES
    run_kind,       \* an ingest run: "directory" (es_utils.py) or "restore" (load_data_bulk_v2.py)
    reachable,      \* the Index Service answers requests during the run
    es_client,      \* what connect_elasticsearch returned: "client", "None" ("none": not called)
    index_requests, \* the indices.delete and indices.create requests attempted
    run_pc,         \* "connect", "connected", "ingest", "data", "done", "exit" ("idle": no run)
    startup_pc,     \* startup_event in each API process: "ping", "exists", "create_exists", "delete", "create", "done", "raised"
    es_exists,      \* the Index Service: the index ES_INDEX exists
    es_docs,        \* the documents in it
    ever_existed,   \* the index has existed at some point
    ever_docs,      \* every document written to it so far
    es_deletes,     \* the indices.delete requests the API processes have made
    data_files,     \* restore_data_from_split_files: the number of actions each part file gives, in sorted order
    file_num,       \* the part files the loop is done with
    lines_taken,    \* the actions taken from the current part file
    pending,        \* its list "actions", as runs of consecutive actions of one file
    bulk_writes,    \* every helpers.bulk call: its actions and whether it returned
    indexed_count,  \* its indexed_count
    restore_pc,     \* "glob", "file", "bulk", "return", "done" ("idle": not running)
    returned,       \* what it returned: "True", "False" ("none": not yet)
    jsonl_file,     \* load_jsonl: the file, as the blocks of lines the reader decodes at once
    encoding,       \* how the file is open: "utf-8", "latin-1" ("closed": not open)
    blocks_read,    \* the blocks read under the current encoding
    decoded,        \* the decoded lines the loop has not taken yet
    jsonl_yielded,  \* the values yielded so far
    attempt,        \* streaming_bulk on one chunk: the attempt under way, from 0
    bulk_actions,   \* the actions the attempt sends
    to_retry,       \* the actions kept for the next attempt
    responses,      \* the status the service gave each action of the attempt
    zip_i,          \* how many of them the loop has taken
    slept,          \* the waits of the chunk so far, in time units
    requests,       \* the actions of each request made for the chunk
    retry_pc,       \* "request", "zip", "sleep" ("idle": between chunks)
    documents,      \* bulk_index_pmc_documents: the batch passed in
    pc,             \* where the loader is: "loop", "bulk", "done" ("idle": not running)
    i,              \* index of the enumerate loop
    actions,        \* the index actions built so far
    origin,         \* for each action, the enumerate index of its record
    skipped,        \* records rejected by sanitize_document
    success_count,  \* outcomes reported as success
    error_count,    \* outcomes reported as failure
    chunk,          \* outcomes of the chunk in flight, not yet yielded
    yielded,        \* number of actions whose outcome was yielded
    submitted,      \* every action sent to the Index Service, in order
    index,          \* the Index Service: the documents stored, by _id
    result,         \* how the loader returned: "no_actions", "failed", "indexed"
    doc,            \* sanitize_document on its own: the input
    sanitized,      \* its result
    resanitized,    \* the result of sanitizing that result again
    san_pc,         \* "input", "once", "twice" ("idle": not running)
    source,         \* parse_xml_file and _parse_date on their own: the source
    extracted,      \* the result of parse_xml_file
    date_out,       \* the result of _parse_date
    ext_pc,         \* "input", "parsed" ("idle": not running)
    date_pc,        \* "input", "parsed" ("idle": not running)
    xml_files,      \* index_pmc_xml_directory: the files of the directory, in order
    batch_size,     \* its batch_size
    file_i,         \* index of its enumerate loop
    dir_documents,  \* its pending batch ("documents")
    total_processed,
    handed,         \* every batch handed to bulk_index_pmc_documents, in order
    flush_results,  \* how each of those calls ended, with its counts and the
                    \* index it left
    output,         \* the numbers of the final "Completed!" line
    dir_pc,         \* "file", "flush", "done", "abandoned" ("idle": not running)
    doc_id,         \* get_pmc_document_by_id: the id asked for
    resolved,       \* what it returned
    res_error,      \* the request of it that raised: "none", "get", "search"
    res_pc,         \* "get", "search", "done" ("idle": not running)
    filters,        \* search_articles: the filters passed to search_pmc_documents
    filter_clauses, \* the filter clauses of the query it built
    scored,         \* the text-match score the Index Service gave each document
    hits,           \* the hits of the response
    results,        \* what search_pmc_documents returned: the results
    total,          \* and the total
    search_failed,  \* es.search raised
    shaped,         \* the PMCSearchResult list of the response
    http_status,    \* 200 or 500 (0: no response yet)
    search_pc       \* "call", "returned", "done" ("idle": not running)

vars == <<run_kind, reachable, es_client, index_requests, run_pc,
          startup_pc, es_exists, es_docs, ever_existed, ever_docs, es_deletes,
          data_files, file_num, lines_taken, pending, bulk_writes, indexed_count, restore_pc, returned,
          jsonl_file, encoding, blocks_read, decoded, jsonl_yielded,
          attempt, bulk_actions, to_retry, responses, zip_i, slept, requests, retry_pc,
          documents, pc, i, actions, origin, skipped, success_count, error_count, chunk,
          yielded, submitted, index, result, doc, sanitized, resanitized, san_pc,
          source, extracted, date_out, ext_pc, date_pc,
          xml_files, batch_size, file_i, dir_documents, total_processed, handed,
          flush_results, output, dir_pc,
          doc_id, resolved, res_error, res_pc,
          filters, filter_clauses, scored, hits, results, total, search_failed, shaped,
          http_status, search_pc>>
loader_vars == <<documents, pc, i, actions, origin, skipped, success_count, error_count,
                 chunk, yielded, submitted, index, result>>
sanitize_vars == <<doc, sanitized, resanitized, san_pc>>
extract_vars == <<source, extracted, date_out, ext_pc, date_pc>>
\* what the loader, the sanitizer and the extractor each leave alone
dir_vars == <<xml_files, batch_size, file_i, dir_documents, total_processed, handed,
              flush_results, output, dir_pc>>
resolve_vars == <<doc_id, resolved, res_error, res_pc>>
search_vars == <<filters, filter_clauses, scored, hits, results, total, search_failed,
                 shaped, http_status, search_pc>>
retry_vars == <<attempt, bulk_actions, to_retry, responses, zip_i, slept, requests, retry_pc>>
jsonl_vars == <<jsonl_file, encoding, blocks_read, decoded, jsonl_yielded>>
restore_vars == <<data_files, file_num, lines_taken, pending, bulk_writes, indexed_count, restore_pc, returned>>
startup_vars == <<startup_pc, es_exists, es_docs, ever_existed, ever_docs, es_deletes>>
run_vars == <<run_kind, reachable, es_client, index_requests, run_pc>>
non_loader_vars == <<sanitize_vars, extract_vars, dir_vars, resolve_vars, search_vars,
    retry_vars, jsonl_vars, restore_vars, startup_vars, run_vars>>
non_sanitize_vars == <<loader_vars, extract_vars, dir_vars, resolve_vars, search_vars,
    retry_vars, jsonl_vars, restore_vars, startup_vars, run_vars>>
non_extract_vars == <<loader_vars, sanitize_vars, dir_vars, resolve_vars, search_vars,
    retry_vars, jsonl_vars, restore_vars, startup_vars, run_vars>>
non_dir_vars == <<sanitize_vars, extract_vars, resolve_vars, search_vars, retry_vars,
    jsonl_vars, restore_vars, startup_vars, run_vars>>
non_resolve_vars == <<loader_vars, sanitize_vars, extract_vars, dir_vars, search_vars,
    retry_vars, jsonl_vars, restore_vars, startup_vars, run_vars>>
non_search_vars == <<loader_vars, sanitize_vars, extract_vars, dir_vars, resolve_vars,
    retry_vars, jsonl_vars, restore_vars, startup_vars, run_vars>>
non_retry_vars == <<sanitize_vars, extract_vars, dir_vars, resolve_vars, search_vars,
    jsonl_vars, restore_vars, startup_vars, run_vars>>
non_jsonl_vars == <<loader_vars, sanitize_vars, extract_vars, dir_vars, resolve_vars,
    search_vars, retry_vars, restore_vars, startup_vars, run_vars>>
non_restore_vars == <<loader_vars, sanitize_vars, extract_vars, dir_vars, resolve_vars,
    search_vars, retry_vars, jsonl_vars, startup_vars, run_vars>>
non_startup_vars == <<loader_vars, sanitize_vars, extract_vars, dir_vars, resolve_vars,
    search_vars, retry_vars, jsonl_vars, restore_vars, run_vars>>
non_run_vars == <<loader_vars, sanitize_vars, extract_vars, dir_vars, resolve_vars,
    search_vars, retry_vars, jsonl_vars, restore_vars, startup_vars>>
\* what the steps of a run leave alone when they start the directory ingest or the restore
non_dir_vars_run == <<sanitize_vars, extract_vars, resolve_vars, search_vars,
    retry_vars, jsonl_vars, restore_vars, startup_vars>>
non_restore_vars_run == <<loader_vars, sanitize_vars, extract_vars, dir_vars,
    resolve_vars, search_vars, retry_vars, jsonl_vars, startup_vars>>

\* streaming_bulk(chunk_size=25)
chunk_size == 25

LoaderIdle ==
    /\ documents = <<>> /\ pc = "idle" /\ i = 0 /\ actions = <<>> /\ origin = <<>>
    /\ skipped = 0
    /\ success_count = 0 /\ error_count = 0 /\ chunk = <<>> /\ yielded = 0
    /\ submitted = <<>> /\ index = {} /\ result = "none"
SanitizeIdle ==
    doc = NoneDoc /\ sanitized = NoneDoc /\ resanitized = NoneDoc /\ san_pc = "idle"
ExtractIdle ==
    /\ source = Unparseable /\ extracted = NoneDoc /\ date_out = PyNone
    /\ ext_pc = "idle" /\ date_pc = "idle"
DirIdle ==
    /\ xml_files = <<>> /\ batch_size = 1 /\ file_i = 0 /\ dir_documents = <<>>
    /\ total_processed = 0 /\ handed = <<>> /\ flush_results = <<>> /\ output = <<>>
    /\ dir_pc = "idle"
ResolveIdle ==
    doc_id = <<>> /\ resolved = NoneDoc /\ res_error = "none" /\ res_pc = "idle"
SearchIdle ==
    /\ filters = NoFilters /\ filter_clauses = <<>> /\ scored = {} /\ hits = <<>>
    /\ results = <<>> /\ total = 0 /\ search_failed = FALSE /\ shaped = <<>>
    /\ http_status = 0 /\ search_pc = "idle"
RetryIdle ==
    /\ attempt = 0 /\ bulk_actions = <<>> /\ to_retry = <<>> /\ responses = <<>>
    /\ zip_i = 0 /\ slept = <<>> /\ requests = <<>> /\ retry_pc = "idle"
JsonlIdle ==
    /\ jsonl_file = <<>> /\ encoding = "closed" /\ blocks_read = 0 /\ decoded = <<>>
    /\ jsonl_yielded = <<>>
RestoreIdle ==
    /\ data_files = <<>> /\ file_num = 0 /\ lines_taken = 0 /\ pending = <<>>
    /\ bulk_writes = <<>> /\ indexed_count = 0 /\ restore_pc = "idle" /\ returned = "none"
StartupIdle ==
    /\ startup_pc = <<>> /\ es_exists = FALSE /\ es_docs = {} /\ ever_existed = FALSE
    /\ ever_docs = {} /\ es_deletes = 0
RunIdle ==
    /\ run_kind = "none" /\ reachable = TRUE /\ es_client = "none" /\ index_requests = 0
    /\ run_pc = "idle"
\* the loader not running, over whatever index there is
LoaderStopped ==
    /\ documents = <<>> /\ pc = "idle" /\ i = 0 /\ actions = <<>> /\ origin = <<>>
    /\ skipped = 0
    /\ success_count = 0 /\ error_count = 0 /\ chunk = <<>> /\ yielded = 0
    /\ submitted = <<>> /\ result = "none"

\* a call of bulk_index_pmc_documents on some batch, against an empty index
Init ==
    /\ documents \in Batches
    /\ pc = "loop" /\ i = 0 /\ actions = <<>> /\ origin = <<>> /\ skipped = 0
    /\ success_count = 0 /\ error_count = 0 /\ chunk = <<>> /\ yielded = 0
    /\ submitted = <<>> /\ index = {} /\ result = "none"
    /\ SanitizeIdle /\ ExtractIdle /\ DirIdle /\ ResolveIdle /\ SearchIdle /\ RetryIdle /\ JsonlIdle /\ RestoreIdle /\ StartupIdle /\ RunIdle

(***************************************************************************)
(* bulk_index_pmc_documents                                                *)
(***************************************************************************)
\* mutant: pmid tried before pmcid
DocId_pmid_first(sanitized_doc, pos) ==
    IF Truthy(sanitized_doc.doi) THEN sanitized_doc.doi.s
    ELSE IF Truthy(sanitized_doc.pmid) THEN sanitized_doc.pmid.s
    ELSE IF Truthy(sanitized_doc.pmcid) THEN sanitized_doc.pmcid.s
    ELSE Cat(DocPrefix, IntStr(pos))

\* mutant: the position left out of the fallback
DocId_no_position(sanitized_doc, pos) ==
    IF Truthy(sanitized_doc.doi) THEN sanitized_doc.doi.s
    ELSE IF Truthy(sanitized_doc.pmcid) THEN sanitized_doc.pmcid.s
    ELSE IF Truthy(sanitized_doc.pmid) THEN sanitized_doc.pmid.s
    ELSE DocPrefix

\* doi or pmcid or pmid or f"doc_{i}"
DocId(sanitized_doc, pos) ==
    IF Truthy(sanitized_doc.doi) THEN sanitized_doc.doi.s
    ELSE IF Truthy(sanitized_doc.pmcid) THEN sanitized_doc.pmcid.s
    ELSE IF Truthy(sanitized_doc.pmid) THEN sanitized_doc.pmid.s
    ELSE Cat(DocPrefix, IntStr(pos))

\* loop body, "if not sanitized_doc: skipped += 1; continue"
SkipRecord ==
    /\ pc = "loop" /\ i < Len(documents)
    /\ sanitize_document(documents[i + 1]).t = "none"
    /\ skipped' = skipped + 1
    /\ i' = i + 1
    /\ UNCHANGED <<documents, pc, actions, origin, success_count, error_count, chunk,
                   yielded, submitted, index, result, non_loader_vars>>

\* loop body, a record that sanitize_document accepts
AppendAction ==
    /\ pc = "loop" /\ i < Len(documents)
    /\ LET sanitized_doc == sanitize_document(documents[i + 1]) IN
       /\ sanitized_doc.t # "none"
       /\ actions' = Append(actions, [_id |-> DocId(sanitized_doc, i),
                                      _source |-> sanitized_doc])
    /\ origin' = Append(origin, i)
    /\ i' = i + 1
    /\ UNCHANGED <<documents, pc, skipped, success_count, error_count, chunk,
                   yielded, submitted, index, result, non_loader_vars>>

\* "if not actions: ... return"
ReturnNoActions ==
    /\ pc = "loop" /\ i = Len(documents) /\ actions = <<>>
    /\ pc' = "done" /\ result' = "no_actions"
    /\ UNCHANGED <<documents, i, actions, origin, skipped, success_count, error_count,
                   chunk, yielded, submitted, index, non_loader_vars>>

\* success_count = 0; error_count = 0; enter the streaming_bulk loop
StartBulk ==
    /\ pc = "loop" /\ i = Len(documents) /\ actions # <<>>
    /\ pc' = "bulk" /\ success_count' = 0 /\ error_count' = 0
    /\ UNCHANGED <<documents, i, actions, origin, skipped, chunk, yielded, submitted,
                   index, result, non_loader_vars>>

\* the actions of the next chunk
NextChunk ==
    SubSeq(actions, yielded + 1,
           IF yielded + chunk_size < Len(actions) THEN yielded + chunk_size
           ELSE Len(actions))

\* mutant: a write empties the index first
Write_fresh(idx, action) == {action}

\* an index action that succeeds: the document of its _id is replaced, every
\* other document is left alone
Write(idx, action) == {d \in idx : d._id # action._id} \cup {action}

RECURSIVE Store(_, _, _)
\* the index after the writes of a chunk
Store(idx, acts, oks) ==
    IF acts = <<>> THEN idx
    ELSE Store(IF Head(oks) THEN Write(idx, Head(acts)) ELSE idx,
               Tail(acts), Tail(oks))

\* streaming_bulk sends the next chunk; the service answers per document
SendChunk ==
    /\ pc = "bulk" /\ chunk = <<>> /\ yielded < Len(actions)
    /\ \E oks \in [1..Len(NextChunk) -> BOOLEAN] :
          /\ chunk' = oks
          /\ index' = Store(index, NextChunk, oks)
    /\ submitted' = submitted \o NextChunk
    /\ UNCHANGED <<documents, pc, i, actions, origin, skipped, success_count, error_count,
                   yielded, result, non_loader_vars>>

\* raise_on_exception=False: a chunk whose request fails yields a failure per document
ChunkTransportError ==
    /\ pc = "bulk" /\ chunk = <<>> /\ yielded < Len(actions)
    /\ chunk' = [n \in 1..Len(NextChunk) |-> FALSE]
    /\ submitted' = submitted \o NextChunk
    /\ UNCHANGED <<documents, pc, i, actions, origin, skipped, success_count, error_count,
                   yielded, index, result, non_loader_vars>>

\* "if success: success_count += 1"
CountSuccess ==
    /\ pc = "bulk" /\ chunk # <<>> /\ Head(chunk)
    /\ success_count' = success_count + 1
    /\ chunk' = Tail(chunk) /\ yielded' = yielded + 1
    /\ UNCHANGED <<documents, pc, i, actions, origin, skipped, error_count, submitted,
                   index, result, non_loader_vars>>

\* "else: error_count += 1"
CountError ==
    /\ pc = "bulk" /\ chunk # <<>> /\ ~Head(chunk)
    /\ error_count' = error_count + 1
    /\ chunk' = Tail(chunk) /\ yielded' = yielded + 1
    /\ UNCHANGED <<documents, pc, i, actions, origin, skipped, success_count, submitted,
                   index, result, non_loader_vars>>

\* "except Exception as e: print(...); return": streaming_bulk raises while it
\* prepares a chunk (nothing sent) or while its request is under way (sent, and
\* the service may have stored any of its documents)
BulkRaise ==
    /\ pc = "bulk" /\ chunk = <<>> /\ yielded < Len(actions)
    /\ \E sent \in BOOLEAN, oks \in [1..Len(NextChunk) -> BOOLEAN] :
          /\ sent \/ \A n \in 1..Len(NextChunk) : ~oks[n]
          /\ submitted' = IF sent THEN submitted \o NextChunk ELSE submitted
          /\ index' = Store(index, NextChunk, oks)
    /\ pc' = "done" /\ result' = "failed"
    /\ UNCHANGED <<documents, i, actions, origin, skipped, success_count, error_count,
                   chunk, yielded, non_loader_vars>>

\* the summary line and the refresh (whose failure is only logged)
Finish ==
    /\ pc = "bulk" /\ chunk = <<>> /\ yielded = Len(actions)
    /\ pc' = "done" /\ result' = "indexed"
    /\ UNCHANGED <<documents, i, actions, origin, skipped, success_count, error_count,
                   chunk, yielded, submitted, index, non_loader_vars>>

Next ==
    \/ SkipRecord \/ AppendAction \/ ReturnNoActions \/ StartBulk
    \/ SendChunk \/ ChunkTransportError \/ CountSuccess \/ CountError
    \/ BulkRaise \/ Finish

Spec == Init /\ [][Next]_vars

(***************************************************************************)
(* helpers.streaming_bulk(max_retries=3, initial_backoff=2,                *)
(* max_backoff=600) on the chunks of one load: a document answered with    *)
(* status 429 is sent again, after a wait, until the attempts run out      *)
(***************************************************************************)
max_retries == 3
initial_backoff == 2
max_backoff == 600

\* the wait before attempt k: min(max_backoff, initial_backoff * 2 ** (k - 1))
Backoff(k) ==
    IF max_backoff < initial_backoff * 2 ^ (k - 1) THEN max_backoff
    ELSE initial_backoff * 2 ^ (k - 1)

\* a load of records that sanitize_document accepts, against an empty index
InitRetry ==
    /\ documents \in RetryBatches
    /\ pc = "loop" /\ i = 0 /\ actions = <<>> /\ origin = <<>> /\ skipped = 0
    /\ success_count = 0 /\ error_count = 0 /\ chunk = <<>> /\ yielded = 0
    /\ submitted = <<>> /\ index = {} /\ result = "none"
    /\ RetryIdle
    /\ SanitizeIdle /\ ExtractIdle /\ DirIdle /\ ResolveIdle /\ SearchIdle /\ JsonlIdle /\ RestoreIdle /\ StartupIdle /\ RunIdle

\* the next chunk is taken from the actions: "for attempt in range(max_retries + 1)"
BeginChunk ==
    /\ pc = "bulk" /\ retry_pc = "idle" /\ yielded < Len(actions)
    /\ bulk_actions' = NextChunk
    /\ attempt' = 0 /\ to_retry' = <<>> /\ responses' = <<>> /\ zip_i' = 0
    /\ slept' = <<>> /\ requests' = <<>>
    /\ retry_pc' = "request"
    /\ UNCHANGED <<loader_vars, non_retry_vars>>

\* "if attempt: time.sleep(min(max_backoff, initial_backoff * 2 ** (attempt - 1)))"
Sleep ==
    /\ pc = "bulk" /\ retry_pc = "sleep"
    /\ slept' = Append(slept, Backoff(attempt))
    /\ retry_pc' = "request"
    /\ UNCHANGED <<attempt, bulk_actions, to_retry, responses, zip_i, requests,
                   loader_vars, non_retry_vars>>

\* the bulk request of the attempt: the service answers each action with
\* success, a failure, or status 429 (also when the request as a whole fails:
\* raise_on_exception=False gives every action the status of the error)
Request ==
    /\ pc = "bulk" /\ retry_pc = "request"
    /\ \E statuses \in [1..Len(bulk_actions) -> {"ok", "error", "429"}] :
          /\ responses' = statuses
          /\ index' = Store(index, bulk_actions,
                            [n \in 1..Len(bulk_actions) |-> statuses[n] = "ok"])
    /\ submitted' = submitted \o bulk_actions
    /\ requests' = Append(requests, bulk_actions)
    /\ zip_i' = 0 /\ retry_pc' = "zip"
    /\ UNCHANGED <<attempt, bulk_actions, to_retry, slept,
                   documents, pc, i, actions, origin, skipped, success_count,
                   error_count, chunk, yielded, result, non_retry_vars>>

\* the request raises out of streaming_bulk (an error that is not turned into
\* statuses, such as a connection error): "except Exception as e: ...; return"
RequestRaises ==
    /\ pc = "bulk" /\ retry_pc = "request"
    /\ requests' = Append(requests, bulk_actions)
    /\ pc' = "done" /\ result' = "failed"
    /\ UNCHANGED <<attempt, bulk_actions, to_retry, responses, zip_i, slept, retry_pc,
                   documents, i, actions, origin, skipped, success_count,
                   error_count, chunk, yielded, submitted, index, non_retry_vars>>

\* "if max_retries and info['status'] == 429 and (attempt + 1) <= max_retries"
Retried(status, k) == max_retries # 0 /\ status = "429" /\ k + 1 <= max_retries

\* a success is yielded: "if success: success_count += 1"
YieldOk ==
    /\ pc = "bulk" /\ retry_pc = "zip" /\ zip_i < Len(responses)
    /\ responses[zip_i + 1] = "ok"
    /\ success_count' = success_count + 1
    /\ yielded' = yielded + 1 /\ zip_i' = zip_i + 1
    /\ UNCHANGED <<attempt, bulk_actions, to_retry, responses, slept, requests, retry_pc,
                   documents, pc, i, actions, origin, skipped, error_count, chunk,
                   submitted, index, result, non_retry_vars>>

\* a failure that is not retried is yielded: "else: error_count += 1"
YieldFailure ==
    /\ pc = "bulk" /\ retry_pc = "zip" /\ zip_i < Len(responses)
    /\ responses[zip_i + 1] # "ok" /\ ~Retried(responses[zip_i + 1], attempt)
    /\ error_count' = error_count + 1
    /\ yielded' = yielded + 1 /\ zip_i' = zip_i + 1
    /\ UNCHANGED <<attempt, bulk_actions, to_retry, responses, slept, requests, retry_pc,
                   documents, pc, i, actions, origin, skipped, success_count, chunk,
                   submitted, index, result, non_retry_vars>>

\* "to_retry_data.append(data)": nothing is yielded for the action
KeepForRetry ==
    /\ pc = "bulk" /\ retry_pc = "zip" /\ zip_i < Len(responses)
    /\ Retried(responses[zip_i + 1], attempt)
    /\ to_retry' = Append(to_retry, bulk_actions[zip_i + 1])
    /\ zip_i' = zip_i + 1
    /\ UNCHANGED <<attempt, bulk_actions, responses, slept, requests, retry_pc,
                   loader_vars, non_retry_vars>>

\* "if not to_retry: break"
ChunkDone ==
    /\ pc = "bulk" /\ retry_pc = "zip" /\ zip_i = Len(responses)
    /\ to_retry = <<>>
    /\ retry_pc' = "idle"
    /\ UNCHANGED <<attempt, bulk_actions, to_retry, responses, zip_i, slept, requests,
                   loader_vars, non_retry_vars>>

\* "bulk_actions, bulk_data = to_retry, to_retry_data" and the next attempt
NextAttempt ==
    /\ pc = "bulk" /\ retry_pc = "zip" /\ zip_i = Len(responses)
    /\ to_retry # <<>>
    /\ bulk_actions' = to_retry /\ to_retry' = <<>>
    /\ attempt' = attempt + 1
    /\ retry_pc' = "sleep"
    /\ UNCHANGED <<responses, zip_i, slept, requests, loader_vars, non_retry_vars>>

\* the summary line and the refresh, once streaming_bulk is exhausted
FinishRetry ==
    /\ pc = "bulk" /\ retry_pc = "idle" /\ yielded = Len(actions)
    /\ pc' = "done" /\ result' = "indexed"
    /\ UNCHANGED <<documents, i, actions, origin, skipped, success_count, error_count,
                   chunk, yielded, submitted, index, retry_vars, non_retry_vars>>

NextRetry ==
    \/ AppendAction \/ StartBulk
    \/ BeginChunk \/ Sleep \/ Request \/ RequestRaises
    \/ YieldOk \/ YieldFailure \/ KeepForRetry \/ ChunkDone \/ NextAttempt
    \/ FinishRetry

SpecRetry == InitRetry /\ [][NextRetry]_vars

(***************************************************************************)
(* load_jsonl of load_data_bulk_v2.py: a generator over the lines of a     *)
(* file opened as UTF-8, and opened again as Latin-1 when decoding fails   *)
(***************************************************************************)
\* json.loads(line.strip()) under an encoding: the value, or "error" for
\* json.JSONDecodeError; a line with a byte that is no UTF-8 decodes under
\* Latin-1 only
Loads(line, enc) ==
    IF line.kind = "json" \/ (line.kind = "bytes" /\ enc = "latin-1") THEN line.value
    ELSE "error"

\* the decoder meets a byte that is no UTF-8 in the block
Undecodable(block) == \E n \in 1..Len(block) : block[n].kind = "bytes"

InitJsonl ==
    /\ jsonl_file \in JsonlFiles
    /\ encoding = "utf-8" /\ blocks_read = 0 /\ decoded = <<>> /\ jsonl_yielded = <<>>
    /\ RetryIdle /\ LoaderIdle
    /\ SanitizeIdle /\ ExtractIdle /\ DirIdle /\ ResolveIdle /\ SearchIdle /\ RestoreIdle /\ StartupIdle /\ RunIdle

\* "for line in f": the reader decodes the next block of the file
ReadBlock ==
    /\ encoding # "closed" /\ decoded = <<>> /\ blocks_read < Len(jsonl_file)
    /\ encoding = "utf-8" => ~Undecodable(jsonl_file[blocks_read + 1])
    /\ decoded' = jsonl_file[blocks_read + 1]
    /\ blocks_read' = blocks_read + 1
    /\ UNCHANGED <<jsonl_file, encoding, jsonl_yielded, non_jsonl_vars>>

\* "except UnicodeDecodeError": the file is opened again as Latin-1 and read
\* from its start
DecodeError ==
    /\ encoding = "utf-8" /\ decoded = <<>> /\ blocks_read < Len(jsonl_file)
    /\ Undecodable(jsonl_file[blocks_read + 1])
    /\ encoding' = "latin-1"
    /\ blocks_read' = 0
    /\ UNCHANGED <<jsonl_file, decoded, jsonl_yielded, non_jsonl_vars>>

\* "yield json.loads(line.strip())"
YieldLine ==
    /\ encoding # "closed" /\ decoded # <<>>
    /\ Loads(Head(decoded), encoding) # "error"
    /\ jsonl_yielded' = Append(jsonl_yielded, Loads(Head(decoded), encoding))
    /\ decoded' = Tail(decoded)
    /\ UNCHANGED <<jsonl_file, encoding, blocks_read, non_jsonl_vars>>

\* "except json.JSONDecodeError: logger.warning(...); continue"
SkipLine ==
    /\ encoding # "closed" /\ decoded # <<>>
    /\ Loads(Head(decoded), encoding) = "error"
    /\ decoded' = Tail(decoded)
    /\ UNCHANGED <<jsonl_file, encoding, blocks_read, jsonl_yielded, non_jsonl_vars>>

\* the file is exhausted: the generator returns
EndOfFile ==
    /\ encoding # "closed" /\ decoded = <<>> /\ blocks_read = Len(jsonl_file)
    /\ encoding' = "closed"
    /\ UNCHANGED <<jsonl_file, blocks_read, decoded, jsonl_yielded, non_jsonl_vars>>

NextJsonl == ReadBlock \/ DecodeError \/ YieldLine \/ SkipLine \/ EndOfFile

SpecJsonl == InitJsonl /\ [][NextJsonl]_vars

(***************************************************************************)
(* restore_data_from_split_files of load_data_bulk_v2.py: the actions of   *)
(* the part files are collected in batches of 500 and written with         *)
(* helpers.bulk                                                            *)
(***************************************************************************)
\* "batch_size = 500"
restore_batch_size == 500

\* actions first..last of part file f
Run(f, first, last) == [file |-> f, first |-> first, last |-> last]
RECURSIVE RunsLen(_)
\* len(actions)
RunsLen(runs) ==
    IF runs = <<>> THEN 0
    ELSE Head(runs).last - Head(runs).first + 1 + RunsLen(Tail(runs))
\* actions.append(action), for the actions of a run
AppendRun(runs, r) ==
    IF /\ runs # <<>> /\ runs[Len(runs)].file = r.file
       /\ runs[Len(runs)].last + 1 = r.first
    THEN [runs EXCEPT ![Len(runs)].last = r.last]
    ELSE Append(runs, r)

InitRestore ==
    /\ data_files \in PartFiles
    /\ file_num = 0 /\ lines_taken = 0 /\ pending = <<>> /\ bulk_writes = <<>>
    /\ indexed_count = 0 /\ restore_pc = "glob" /\ returned = "none"
    /\ RetryIdle /\ JsonlIdle /\ LoaderIdle
    /\ SanitizeIdle /\ ExtractIdle /\ DirIdle /\ ResolveIdle /\ SearchIdle /\ StartupIdle /\ RunIdle

\* "if not data_files: ...; return False"
NoDataFiles ==
    /\ restore_pc = "glob" /\ data_files = <<>>
    /\ restore_pc' = "done" /\ returned' = "False"
    /\ UNCHANGED <<data_files, file_num, lines_taken, pending, bulk_writes,
                   indexed_count, non_restore_vars>>

\* the lines of every part file are counted
CountLines ==
    /\ restore_pc = "glob" /\ data_files # <<>>
    /\ restore_pc' = "file"
    /\ UNCHANGED <<data_files, file_num, lines_taken, pending, bulk_writes,
                   indexed_count, returned, non_restore_vars>>

\* count_lines_in_file raises: "except Exception as e: ...; return False"
CountLinesRaises ==
    /\ restore_pc = "glob" /\ data_files # <<>>
    /\ restore_pc' = "done" /\ returned' = "False"
    /\ UNCHANGED <<data_files, file_num, lines_taken, pending, bulk_writes,
                   indexed_count, non_restore_vars>>

\* how many actions the inner loop appends before "len(actions) >= batch_size"
\* holds or the file ends: at least one, then up to the batch size
Taken(left, held) ==
    IF held + 1 >= restore_batch_size THEN 1
    ELSE IF left < restore_batch_size - held THEN left
    ELSE restore_batch_size - held

\* "for action in generate_bulk_actions_from_file(file_path):
\*      actions.append(action)", up to the batch size or the end of the file
TakeActions ==
    /\ restore_pc = "file" /\ file_num < Len(data_files)
    /\ lines_taken < data_files[file_num + 1]
    /\ LET k == Taken(data_files[file_num + 1] - lines_taken, RunsLen(pending)) IN
       /\ pending' = AppendRun(pending, Run(file_num + 1, lines_taken + 1, lines_taken + k))
       /\ lines_taken' = lines_taken + k
       /\ restore_pc' = IF RunsLen(pending) + k >= restore_batch_size THEN "bulk" ELSE "file"
    /\ UNCHANGED <<data_files, file_num, bulk_writes, indexed_count, returned,
                   non_restore_vars>>

\* helpers.bulk returns: "indexed_count += success; actions = []"
BulkWrite ==
    /\ restore_pc = "bulk"
    /\ bulk_writes' = Append(bulk_writes, [actions |-> pending, ok |-> TRUE])
    /\ indexed_count' = indexed_count + RunsLen(pending)
    /\ pending' = <<>>
    /\ restore_pc' = "file"
    /\ UNCHANGED <<data_files, file_num, lines_taken, returned, non_restore_vars>>

\* helpers.bulk raises: "except Exception as e: ...; continue" goes on with
\* the next part file, "actions" as it was
BulkWriteRaises ==
    /\ restore_pc = "bulk"
    /\ bulk_writes' = Append(bulk_writes, [actions |-> pending, ok |-> FALSE])
    /\ file_num' = file_num + 1 /\ lines_taken' = 0
    /\ restore_pc' = "file"
    /\ UNCHANGED <<data_files, pending, indexed_count, returned, non_restore_vars>>

\* the generator of the part file is exhausted: the next part file
FileDone ==
    /\ restore_pc = "file" /\ file_num < Len(data_files)
    /\ lines_taken = data_files[file_num + 1]
    /\ file_num' = file_num + 1 /\ lines_taken' = 0
    /\ UNCHANGED <<data_files, pending, bulk_writes, indexed_count, restore_pc,
                   returned, non_restore_vars>>

\* "if actions:" after the loop, helpers.bulk returns
FinalBulk ==
    /\ restore_pc = "file" /\ file_num = Len(data_files) /\ pending # <<>>
    /\ bulk_writes' = Append(bulk_writes, [actions |-> pending, ok |-> TRUE])
    /\ indexed_count' = indexed_count + RunsLen(pending)
    /\ restore_pc' = "return"
    /\ UNCHANGED <<data_files, file_num, lines_taken, pending, returned,
                   non_restore_vars>>

\* helpers.bulk raises: "except Exception as e: logger.error(...)"
FinalBulkRaises ==
    /\ restore_pc = "file" /\ file_num = Len(data_files) /\ pending # <<>>
    /\ bulk_writes' = Append(bulk_writes, [actions |-> pending, ok |-> FALSE])
    /\ restore_pc' = "return"
    /\ UNCHANGED <<data_files, file_num, lines_taken, pending, indexed_count,
                   returned, non_restore_vars>>

\* "return True"
ReturnTrue ==
    /\ \/ restore_pc = "return"
       \/ restore_pc = "file" /\ file_num = Len(data_files) /\ pending = <<>>
    /\ restore_pc' = "done" /\ returned' = "True"
    /\ UNCHANGED <<data_files, file_num, lines_taken, pending, bulk_writes,
                   indexed_count, non_restore_vars>>

NextRestore ==
    \/ NoDataFiles \/ CountLines \/ CountLinesRaises
    \/ TakeActions \/ BulkWrite \/ BulkWriteRaises \/ FileDone
    \/ FinalBulk \/ FinalBulkRaises \/ ReturnTrue

SpecRestore == InitRestore /\ [][NextRestore]_vars

(***************************************************************************)
(* startup_event of main_v2.py in several API processes against one Index  *)
(* Service, with create_pmc_index of es_utils.py; each request to the      *)
(* service is one step, and the steps of the processes interleave          *)
(***************************************************************************)
InitStartup ==
    /\ \E n \in 2..MaxProcs : startup_pc = [p \in 1..n |-> "ping"]
    /\ es_exists \in BOOLEAN /\ es_docs \in SUBSET WrittenDocs
    /\ ~es_exists => es_docs = {}
    /\ ever_existed = es_exists /\ ever_docs = es_docs /\ es_deletes = 0
    /\ RetryIdle /\ JsonlIdle /\ RestoreIdle /\ LoaderIdle
    /\ SanitizeIdle /\ ExtractIdle /\ DirIdle /\ ResolveIdle /\ SearchIdle /\ RunIdle

\* "if not es_client.ping(): print(...)": either answer leads on
Ping ==
    \E p \in DOMAIN startup_pc :
        /\ startup_pc[p] = "ping"
        /\ startup_pc' = [startup_pc EXCEPT ![p] = "exists"]
        /\ UNCHANGED <<es_exists, es_docs, ever_existed, ever_docs, es_deletes,
                       non_startup_vars>>

\* "if not es_client.indices.exists(index=ES_INDEX):"
CheckExists ==
    \E p \in DOMAIN startup_pc :
        /\ startup_pc[p] = "exists"
        /\ startup_pc' = [startup_pc EXCEPT ![p] = IF es_exists THEN "done" ELSE "create_exists"]
        /\ UNCHANGED <<es_exists, es_docs, ever_existed, ever_docs, es_deletes,
                       non_startup_vars>>

\* create_pmc_index: "if es.indices.exists(index=index_name):" leads to the
\* delete, otherwise straight to the create
AfterExists(exists) == IF exists THEN "delete" ELSE "create"

CreateCheckExists ==
    \E p \in DOMAIN startup_pc :
        /\ startup_pc[p] = "create_exists"
        /\ startup_pc' = [startup_pc EXCEPT ![p] = AfterExists(es_exists)]
        /\ UNCHANGED <<es_exists, es_docs, ever_existed, ever_docs, es_deletes,
                       non_startup_vars>>

\* "es.indices.delete(index=index_name)": the index and its documents are
\* gone; on an index that is gone already the request raises
Delete ==
    \E p \in DOMAIN startup_pc :
        /\ startup_pc[p] = "delete"
        /\ startup_pc' = [startup_pc EXCEPT ![p] = IF es_exists THEN "create" ELSE "raised"]
        /\ es_deletes' = es_deletes + 1
        /\ es_exists' = FALSE /\ es_docs' = {}
        /\ UNCHANGED <<ever_existed, ever_docs, non_startup_vars>>

\* "es.indices.create(index=index_name, body=mappings)": raises when the
\* index exists
Create ==
    \E p \in DOMAIN startup_pc :
        /\ startup_pc[p] = "create"
        /\ startup_pc' = [startup_pc EXCEPT ![p] = IF es_exists THEN "raised" ELSE "done"]
        /\ es_exists' = TRUE /\ ever_existed' = TRUE
        /\ UNCHANGED <<es_docs, ever_docs, es_deletes, non_startup_vars>>

\* a loader writes a document to the index while the processes start
WriteDocument ==
    \E d \in WrittenDocs \ ever_docs :
        /\ es_exists
        /\ es_docs' = es_docs \cup {d}
        /\ ever_docs' = ever_docs \cup {d}
        /\ UNCHANGED <<startup_pc, es_exists, ever_existed, es_deletes, non_startup_vars>>

NextStartup ==
    \/ Ping \/ CheckExists \/ CreateCheckExists \/ Delete \/ Create
    \/ WriteDocument

SpecStartup == InitStartup /\ [][NextStartup]_vars

(***************************************************************************)
(* sanitize_document applied to one value, then to its own result          *)
(***************************************************************************)
InitSan ==
    /\ doc \in SanitizeInputs
    /\ sanitized = NoneDoc /\ resanitized = NoneDoc /\ san_pc = "input"
    /\ LoaderIdle /\ ExtractIdle /\ DirIdle /\ ResolveIdle /\ SearchIdle /\ RetryIdle /\ JsonlIdle /\ RestoreIdle /\ StartupIdle /\ RunIdle

Sanitize ==
    /\ san_pc = "input"
    /\ sanitized' = sanitize_document(doc)
    /\ san_pc' = "once"
    /\ UNCHANGED <<doc, resanitized, non_sanitize_vars>>

Resanitize ==
    /\ san_pc = "once"
    /\ resanitized' = sanitize_document(sanitized)
    /\ san_pc' = "twice"
    /\ UNCHANGED <<doc, sanitized, non_sanitize_vars>>

NextSan == Sanitize \/ Resanitize

SpecSan == InitSan /\ [][NextSan]_vars

(***************************************************************************)
(* parse_xml_file and _parse_date applied to one source                    *)
(***************************************************************************)
InitExtract ==
    /\ source \in Sources
    /\ extracted = NoneDoc /\ date_out = PyNone
    /\ ext_pc = "input" /\ date_pc = "input"
    /\ LoaderIdle /\ SanitizeIdle /\ DirIdle /\ ResolveIdle /\ SearchIdle /\ RetryIdle /\ JsonlIdle /\ RestoreIdle /\ StartupIdle /\ RunIdle

ParseFile ==
    /\ ext_pc = "input"
    /\ extracted' = parse_xml_file(source)
    /\ ext_pc' = "parsed"
    /\ UNCHANGED <<source, date_out, date_pc, non_extract_vars>>

ParseDate ==
    /\ date_pc = "input" /\ source.date.present
    /\ date_out' = _parse_date(source.date)
    /\ date_pc' = "parsed"
    /\ UNCHANGED <<source, extracted, ext_pc, non_extract_vars>>

\* the record of a parsed file, handed on by index_pmc_xml_directory, goes
\* through the loop body of bulk_index_pmc_documents: it is counted as skipped
\* or becomes an action
LoopBody ==
    /\ ext_pc = "parsed" /\ extracted.t = "dict" /\ pc = "idle"
    /\ documents' = <<extracted>>
    /\ LET sanitized_doc == sanitize_document(extracted) IN
       IF sanitized_doc.t = "none"
       THEN /\ skipped' = skipped + 1
            /\ UNCHANGED <<actions, origin>>
       ELSE /\ actions' = Append(actions, [_id |-> DocId(sanitized_doc, i),
                                           _source |-> sanitized_doc])
            /\ origin' = Append(origin, i)
            /\ UNCHANGED skipped
    /\ i' = i + 1
    /\ pc' = "loop"
    /\ UNCHANGED <<success_count, error_count, chunk, yielded, submitted, index, result,
                   non_loader_vars>>

NextExtract == ParseFile \/ ParseDate \/ LoopBody

SpecExtract == InitExtract /\ [][NextExtract]_vars

(***************************************************************************)
(* index_pmc_xml_directory: the files are parsed in order, the records     *)
(* batched, and each batch handed to bulk_index_pmc_documents, which runs  *)
(* against the index the earlier flushes left                              *)
(***************************************************************************)
InitDir ==
    /\ xml_files \in Directories /\ batch_size \in BatchSizes
    /\ file_i = 0 /\ dir_documents = <<>> /\ total_processed = 0
    /\ handed = <<>> /\ flush_results = <<>> /\ output = <<>> /\ dir_pc = "file"
    /\ LoaderIdle /\ SanitizeIdle /\ ExtractIdle /\ ResolveIdle /\ SearchIdle /\ RetryIdle /\ JsonlIdle /\ RestoreIdle /\ StartupIdle /\ RunIdle

\* "if doc: documents.append(doc)"
DirAppend(docs, d) == IF d.t = "dict" THEN Append(docs, d) ELSE docs

\* mutant: every file counted
DirCount_every_file(count, d) == count + 1

\* "if doc: ... total_processed += 1"
DirCount(count, d) == IF d.t = "dict" THEN count + 1 ELSE count

\* mutant: the batch flushed only once it is over batch_size
ShouldFlush_over(docs, size, idx, nfiles) ==
    (Len(docs) > size \/ idx = nfiles - 1) /\ docs # <<>>

\* "if len(documents) >= batch_size or i == len(xml_files) - 1: if documents:"
ShouldFlush(docs, size, idx, nfiles) ==
    (Len(docs) >= size \/ idx = nfiles - 1) /\ docs # <<>>

\* the loop body for a file after which nothing is flushed
ParseKeep ==
    /\ dir_pc = "file" /\ file_i < Len(xml_files)
    /\ LET d == parse_xml_file(xml_files[file_i + 1]) IN
       /\ ~ShouldFlush(DirAppend(dir_documents, d), batch_size, file_i, Len(xml_files))
       /\ dir_documents' = DirAppend(dir_documents, d)
       /\ total_processed' = DirCount(total_processed, d)
    /\ file_i' = file_i + 1
    /\ UNCHANGED <<xml_files, batch_size, handed, flush_results, output, dir_pc,
                   loader_vars, non_dir_vars>>

\* the loop body for a file up to the call of bulk_index_pmc_documents
ParseFlush ==
    /\ dir_pc = "file" /\ file_i < Len(xml_files)
    /\ LET d == parse_xml_file(xml_files[file_i + 1]) IN
       /\ ShouldFlush(DirAppend(dir_documents, d), batch_size, file_i, Len(xml_files))
       /\ dir_documents' = DirAppend(dir_documents, d)
       /\ total_processed' = DirCount(total_processed, d)
    /\ handed' = Append(handed, dir_documents')
    /\ dir_pc' = "flush"
    /\ documents' = dir_documents'
    /\ pc' = "loop" /\ i' = 0 /\ actions' = <<>> /\ origin' = <<>> /\ skipped' = 0
    /\ success_count' = 0 /\ error_count' = 0 /\ chunk' = <<>> /\ yielded' = 0
    /\ submitted' = <<>> /\ result' = "none"
    /\ UNCHANGED <<xml_files, batch_size, file_i, flush_results, output, index,
                   non_dir_vars>>

\* bulk_index_pmc_documents has returned: "documents = []", and the next file
FlushReturn ==
    /\ dir_pc = "flush" /\ pc = "done"
    /\ flush_results' = Append(flush_results,
                               [result |-> result, succeeded |-> success_count,
                                failed |-> error_count, skipped |-> skipped,
                                index |-> index])
    /\ dir_documents' = <<>>
    /\ file_i' = file_i + 1
    /\ dir_pc' = "file" /\ pc' = "idle"
    /\ UNCHANGED <<xml_files, batch_size, total_processed, handed, output,
                   documents, i, actions, origin, skipped, success_count, error_count,
                   chunk, yielded, submitted, index, result, non_dir_vars>>

\* print(f"Completed! Processed {total_processed} documents")
Complete ==
    /\ dir_pc = "file" /\ file_i = Len(xml_files)
    /\ output' = <<total_processed>>
    /\ dir_pc' = "done"
    /\ UNCHANGED <<xml_files, batch_size, file_i, dir_documents, total_processed,
                   handed, flush_results, loader_vars, non_dir_vars>>

\* the caller abandons the run between two flushes (an interrupt raised in
\* the loop while no bulk_index_pmc_documents call is running): nothing more
\* is parsed or written
Abandon ==
    /\ dir_pc = "file" /\ file_i < Len(xml_files) /\ flush_results # <<>>
    /\ dir_pc' = "abandoned"
    /\ UNCHANGED <<xml_files, batch_size, file_i, dir_documents, total_processed,
                   handed, flush_results, output, loader_vars, non_dir_vars>>

\* sanitize_document accepts every record parse_xml_file emits, so the loader
\* never skips a record of a flush and never returns for want of actions
NextDir ==
    \/ ParseKeep \/ ParseFlush \/ FlushReturn \/ Complete \/ Abandon
    \/ AppendAction \/ StartBulk \/ SendChunk \/ ChunkTransportError
    \/ CountSuccess \/ CountError \/ BulkRaise \/ Finish

SpecDir == InitDir /\ [][NextDir]_vars

(***************************************************************************)
(* get_pmc_document_by_id against an index                                 *)
(***************************************************************************)
InitResolve ==
    /\ index \in Indexes /\ doc_id \in DocIds
    /\ resolved = NoneDoc /\ res_error = "none" /\ res_pc = "get"
    /\ LoaderStopped /\ SanitizeIdle /\ ExtractIdle /\ DirIdle /\ SearchIdle /\ RetryIdle /\ JsonlIdle /\ RestoreIdle /\ StartupIdle /\ RunIdle

\* a term query on a keyword field: the stored value is exactly the term
Term(field, id) == field.t = "str" /\ field.s = id
\* bool should of the three term queries
IdMatches(d, id) ==
    Term(d._source.doi, id) \/ Term(d._source.pmcid, id) \/ Term(d._source.pmid, id)

\* es.get finds the key: "return response['_source']"
GetFound ==
    /\ res_pc = "get"
    /\ \E d \in index : d._id = doc_id /\ resolved' = d._source
    /\ res_pc' = "done"
    /\ UNCHANGED <<doc_id, res_error, non_resolve_vars>>

\* "except NotFoundError: pass"
GetNotFound ==
    /\ res_pc = "get"
    /\ \A d \in index : d._id # doc_id
    /\ res_pc' = "search"
    /\ UNCHANGED <<doc_id, resolved, res_error, non_resolve_vars>>

\* es.get raises another error: "except Exception: ... return None"
GetError ==
    /\ res_pc = "get"
    /\ resolved' = NoneDoc /\ res_error' = "get"
    /\ res_pc' = "done"
    /\ UNCHANGED <<doc_id, non_resolve_vars>>

\* "if hits: return hits[0]['_source']": size 1, any of the matching documents
SearchHit ==
    /\ res_pc = "search"
    /\ \E d \in index : IdMatches(d, doc_id) /\ resolved' = d._source
    /\ res_pc' = "done"
    /\ UNCHANGED <<doc_id, res_error, non_resolve_vars>>

\* no hit: "return None"
SearchNoHit ==
    /\ res_pc = "search"
    /\ \A d \in index : ~IdMatches(d, doc_id)
    /\ resolved' = NoneDoc
    /\ res_pc' = "done"
    /\ UNCHANGED <<doc_id, res_error, non_resolve_vars>>

\* es.search raises: "except Exception: ... return None"
SearchError ==
    /\ res_pc = "search"
    /\ resolved' = NoneDoc /\ res_error' = "search"
    /\ res_pc' = "done"
    /\ UNCHANGED <<doc_id, non_resolve_vars>>

NextResolve ==
    \/ GetFound \/ GetNotFound \/ GetError
    \/ SearchHit \/ SearchNoHit \/ SearchError

SpecResolve == InitResolve /\ [][NextResolve]_vars

(***************************************************************************)
(* search_articles: search_pmc_documents against an index, from_idx 0 and  *)
(* size at least the number of matches, then the response model            *)
(***************************************************************************)
InitSearch ==
    /\ index \in SearchIndexes /\ filters \in FilterInputs
    /\ filter_clauses = <<>> /\ scored = {} /\ hits = <<>>
    /\ results = <<>> /\ total = 0 /\ search_failed = FALSE /\ shaped = <<>>
    /\ http_status = 0 /\ search_pc = "call"
    /\ LoaderStopped /\ SanitizeIdle /\ ExtractIdle /\ DirIdle /\ ResolveIdle /\ RetryIdle /\ JsonlIdle /\ RestoreIdle /\ StartupIdle /\ RunIdle

Clause(kind, field, value, gte, lte) ==
    [kind |-> kind, field |-> field, value |-> value, gte |-> gte, lte |-> lte]

\* mutant: the upper bound left out of the range clause
FilterClauses_no_upper(f) ==
    IF f.t # "dict" THEN <<>>
    ELSE (IF Truthy(f.article_type)
          THEN <<Clause("term", "article_type", f.article_type, Missing, Missing)>>
          ELSE <<>>)
      \o (IF Truthy(f.journal)
          THEN <<Clause("term", "journal.title.keyword", f.journal, Missing, Missing)>>
          ELSE <<>>)
      \o (IF Truthy(f.author)
          THEN <<Clause("nested", "authors.full_name", f.author, Missing, Missing)>>
          ELSE <<>>)
      \o (IF Truthy(f.date_from) \/ Truthy(f.date_to)
          THEN <<Clause("range", "publication_date", Missing,
                        IF Truthy(f.date_from) THEN f.date_from ELSE Missing,
                        Missing)>>
          ELSE <<>>)

\* "if filters: filter_clauses = [] ..."
FilterClauses(f) ==
    IF f.t # "dict" THEN <<>>
    ELSE (IF Truthy(f.article_type)
          THEN <<Clause("term", "article_type", f.article_type, Missing, Missing)>>
          ELSE <<>>)
      \o (IF Truthy(f.journal)
          THEN <<Clause("term", "journal.title.keyword", f.journal, Missing, Missing)>>
          ELSE <<>>)
      \o (IF Truthy(f.author)
          THEN <<Clause("nested", "authors.full_name", f.author, Missing, Missing)>>
          ELSE <<>>)
      \o (IF Truthy(f.date_from) \/ Truthy(f.date_to)
          THEN <<Clause("range", "publication_date", Missing,
                        IF Truthy(f.date_from) THEN f.date_from ELSE Missing,
                        IF Truthy(f.date_to) THEN f.date_to ELSE Missing)>>
          ELSE <<>>)

\* a value the mapping's date format yyyy-MM-dd accepts (ignore_malformed
\* leaves any other value out of the index), and its place in time
IsIndexedDate(v) ==
    /\ v.t = "str" /\ RLen(v.s) = 10
    /\ LET c == Expand(v.s) IN
       /\ c[5] = "-" /\ c[8] = "-"
       /\ StrptimeOk(Lit(SubSeq(c, 1, 4)), Lit(SubSeq(c, 6, 7)), Lit(SubSeq(c, 9, 10)))
DateNum(v) ==
    LET c == Expand(v.s) IN
    10000 * ToInt(SubSeq(c, 1, 4)) + 100 * ToInt(SubSeq(c, 6, 7)) + ToInt(SubSeq(c, 9, 10))

\* the Index Service's reading of a filter clause; the nested match is on
\* names of one word, which match when they are equal
Passes(src, clause) ==
    CASE clause.kind = "term" /\ clause.field = "article_type" ->
            Term(src.article_type, clause.value.s)
      [] clause.kind = "term" /\ clause.field = "journal.title.keyword" ->
            src.journal.t = "dict" /\ Term(src.journal.title, clause.value.s)
      [] clause.kind = "nested" ->
            /\ src.authors.t = "list"
            /\ \E k \in 1..Len(src.authors.l) :
                  Term(src.authors.l[k].c.full_name, clause.value.s)
      [] clause.kind = "range" ->
            /\ IsIndexedDate(src.publication_date)
            /\ clause.gte.t = "str" =>
                  DateNum(src.publication_date) >= DateNum(clause.gte)
            /\ clause.lte.t = "str" =>
                  DateNum(src.publication_date) <= DateNum(clause.lte)

\* bool query: the must clause matched (score above 0) and every filter passes
Matching(idx, clauses, sc) ==
    { d \in idx : sc[d] > 0 /\ \A k \in 1..Len(clauses) : Passes(d._source, clauses[k]) }

\* "_source": {"excludes": ["full_text"]}
Hit(d, sc, hl) ==
    [_id |-> d._id, _source |-> [d._source EXCEPT !.full_text = Missing],
     _score |-> sc, highlight |-> hl]
Mark == S(<<"<", "m", "a", "r", "k", ">">>)

\* result = hit["_source"]; result["_score"] = ...; result["_highlights"] = ...
Result(hit) ==
    [src |-> hit._source,
     extra |-> <<[k |-> "_score", v |-> PyInt(hit._score)]>>
               \o (IF hit.highlight.t # "missing"
                   THEN <<[k |-> "_highlights", v |-> hit.highlight]>> ELSE <<>>)]

\* the value a result holds under a key that is not a source field
Extra(r, key) ==
    LET at == { k \in 1..Len(r.extra) : r.extra[k].k = key } IN
    IF at = {} THEN Missing ELSE r.extra[CHOOSE k \in at : TRUE].v
\* Optional[...] = None
Optional(v) == IF v.t = "missing" THEN PyNone ELSE v

\* PMCSearchResult(**result), extra = "ignore": only the keys that name a field
PMCSearchResult(r) ==
    [doi |-> Optional(r.src.doi), pmcid |-> Optional(r.src.pmcid),
     pmid |-> Optional(r.src.pmid), title |-> r.src.title,
     abstract |-> Optional(r.src.abstract),
     authors |-> IF r.src.authors.t = "missing" THEN List(<<>>) ELSE r.src.authors,
     journal |-> IF r.src.journal.t = "missing"
                 THEN [t |-> "none", title |-> Missing, issn |-> Missing]
                 ELSE r.src.journal,
     publication_date |-> Optional(r.src.publication_date),
     article_type |-> Optional(r.src.article_type),
     keywords |-> IF r.src.keywords.t = "missing" THEN List(<<>>) ELSE r.src.keywords,
     score |-> Optional(Extra(r, "score")),
     highlights |-> Optional(Extra(r, "highlights"))]
\* "title: str" is required
IsValidResult(r) == r.src.title.t = "str"

\* search_pmc_documents, es.search answering: the hits by falling score
SearchOk ==
    /\ search_pc = "call"
    /\ filter_clauses' = FilterClauses(filters)
    /\ \E sc \in [index -> 0..MaxScore], hl \in [index -> {Missing, Mark}] :
          LET found == Matching(index, filter_clauses', sc) IN
          /\ scored' = { [_id |-> d._id, score |-> sc[d]] : d \in index }
          /\ \E order \in [1..Cardinality(found) -> found] :
                /\ \A a, b \in DOMAIN order : a < b =>
                      order[a] # order[b] /\ sc[order[a]] >= sc[order[b]]
                /\ hits' = [k \in DOMAIN order |-> Hit(order[k], sc[order[k]], hl[order[k]])]
          /\ total' = Cardinality(found)
    /\ results' = [k \in DOMAIN hits' |-> Result(hits'[k])]
    /\ search_pc' = "returned"
    /\ UNCHANGED <<filters, search_failed, shaped, http_status, non_search_vars>>

\* search_pmc_documents, es.search raising: "except Exception: ... return [], 0"
SearchFailed ==
    /\ search_pc = "call"
    /\ filter_clauses' = FilterClauses(filters)
    /\ search_failed' = TRUE
    /\ results' = <<>> /\ total' = 0
    /\ search_pc' = "returned"
    /\ UNCHANGED <<filters, scored, hits, shaped, http_status, non_search_vars>>

\* search_articles: the response model built, status 200
Respond ==
    /\ search_pc = "returned"
    /\ \A k \in DOMAIN results : IsValidResult(results[k])
    /\ shaped' = [k \in DOMAIN results |-> PMCSearchResult(results[k])]
    /\ http_status' = 200
    /\ search_pc' = "done"
    /\ UNCHANGED <<filters, filter_clauses, scored, hits, results, total, search_failed,
                   non_search_vars>>

\* search_articles: PMCSearchResult raises, "except Exception: raise HTTPException(500)"
RespondError ==
    /\ search_pc = "returned"
    /\ \E k \in DOMAIN results : ~IsValidResult(results[k])
    /\ http_status' = 500
    /\ search_pc' = "done"
    /\ UNCHANGED <<filters, filter_clauses, scored, hits, results, total, search_failed,
                   shaped, non_search_vars>>

NextSearch == SearchOk \/ SearchFailed \/ Respond \/ RespondError

SpecSearch == InitSearch /\ [][NextSearch]_vars

(***************************************************************************)
(* An ingest run from its connection to the Index Service on: a directory  *)
(* ingest (connect_elasticsearch of es_utils.py, then                      *)
(* index_pmc_xml_directory) or a restore (main of load_data_bulk_v2.py)    *)
(***************************************************************************)
InitRun ==
    /\ run_kind \in {"directory", "restore"} /\ reachable \in BOOLEAN
    /\ es_client = "none" /\ index_requests = 0 /\ run_pc = "connect"
    /\ IF run_kind = "directory"
       THEN xml_files \in RunDirectories /\ batch_size \in BatchSizes
       ELSE xml_files = <<>> /\ batch_size = 1
    /\ file_i = 0 /\ dir_documents = <<>> /\ total_processed = 0
    /\ handed = <<>> /\ flush_results = <<>> /\ output = <<>> /\ dir_pc = "idle"
    /\ RetryIdle /\ JsonlIdle /\ RestoreIdle /\ StartupIdle /\ LoaderIdle
    /\ SanitizeIdle /\ ExtractIdle /\ ResolveIdle /\ SearchIdle

\* connect_elasticsearch of es_utils.py: "if es.ping(): print(...) else:
\* print(...)" and "return es" either way; the directory ingest starts
ConnectDirectory ==
    /\ run_kind = "directory" /\ run_pc = "connect"
    /\ es_client' = "client"
    /\ run_pc' = "ingest" /\ dir_pc' = "file"
    /\ UNCHANGED <<run_kind, reachable, index_requests,
                   xml_files, batch_size, file_i, dir_documents, total_processed,
                   handed, flush_results, output, loader_vars, non_dir_vars_run>>

\* a chunk of a flush reaches the service only when the service answers
SendReachable == reachable /\ SendChunk

\* an error leaving streaming_bulk; a service that does not answer stores nothing
BulkRaiseRun == BulkRaise /\ (reachable \/ index' = index)

\* connect_elasticsearch of load_data_bulk_v2.py: the client when the ping
\* is answered, None otherwise
ConnectRestore ==
    /\ run_kind = "restore" /\ run_pc = "connect"
    /\ es_client' = IF reachable THEN "client" ELSE "None"
    /\ run_pc' = "connected"
    /\ UNCHANGED <<run_kind, reachable, index_requests, non_run_vars>>

\* "if not es_client: logger.error(...); return"
ExitNoClient ==
    /\ run_kind = "restore" /\ run_pc = "connected" /\ es_client = "None"
    /\ run_pc' = "exit"
    /\ UNCHANGED <<run_kind, reachable, es_client, index_requests, non_run_vars>>

\* restore_settings_and_mapping returns True: the index was deleted, if
\* there, and created; restore_data_from_split_files is called
RestoreSettings ==
    /\ run_kind = "restore" /\ run_pc = "connected" /\ es_client = "client"
    /\ index_requests' = index_requests + 1
    /\ run_pc' = "data"
    /\ data_files' \in RunPartFiles
    /\ restore_pc' = "glob"
    /\ UNCHANGED <<run_kind, reachable, es_client,
                   file_num, lines_taken, pending, bulk_writes, indexed_count,
                   returned, non_restore_vars_run>>

\* restore_settings_and_mapping returns False: "...; return"
RestoreSettingsFails ==
    /\ run_kind = "restore" /\ run_pc = "connected" /\ es_client = "client"
    /\ index_requests' = index_requests + 1
    /\ run_pc' = "exit"
    /\ UNCHANGED <<run_kind, reachable, es_client, non_run_vars>>

\* restore_data_from_split_files has returned: the index stats, or
\* "Failed to restore data. Exiting."
RestoreReturned ==
    /\ run_kind = "restore" /\ run_pc = "data" /\ restore_pc = "done"
    /\ run_pc' = IF returned = "True" THEN "done" ELSE "exit"
    /\ UNCHANGED <<run_kind, reachable, es_client, index_requests, non_run_vars>>

NextRun ==
    \/ ConnectDirectory
    \/ ParseKeep \/ ParseFlush \/ FlushReturn \/ Complete
    \/ AppendAction \/ StartBulk \/ SendReachable \/ ChunkTransportError
    \/ CountSuccess \/ CountError \/ BulkRaiseRun \/ Finish
    \/ ConnectRestore \/ ExitNoClient \/ RestoreSettings \/ RestoreSettingsFails
    \/ NoDataFiles \/ CountLines \/ CountLinesRaises
    \/ TakeActions \/ BulkWrite \/ BulkWriteRaises \/ FileDone
    \/ FinalBulk \/ FinalBulkRaises \/ ReturnTrue
    \/ RestoreReturned

SpecRun == InitRun /\ [][NextRun]_vars

(***************************************************************************)
(* Properties                                                              *)
(***************************************************************************)
\* an empty field: the empty string, None, or no such key
IsEmpty(v) == v.t \in {"missing", "none"} \/ (v.t = "str" /\ v.s = <<>>)
IdsAllEmpty(d) == IsEmpty(d.doi) /\ IsEmpty(d.pmcid) /\ IsEmpty(d.pmid)
\* the sanitized identifiers of an accepted record are all empty
NoSanitizedId(d) == d.doi.s = <<>> /\ d.pmcid.s = <<>> /\ d.pmid.s = <<>>
\* the positional id of position n
Positional(n) == Cat(Lit(<<"d", "o", "c", "_">>), IntStr(n))
\* the positions of the batch already looped over whose record satisfies P
Seen(P(_)) == {j \in 1..i : P(documents[j])}

\* C1: every call of the loader on n records finishes with
\* succeeded + failed + skipped = n, on every path
C1_Accounting ==
    pc = "done" => success_count + error_count + skipped = Len(documents)

\* C2: a record whose identifiers are all empty, or whose title is empty, is
\* rejected by sanitize_document, is counted as skipped, and no action is
\* built from it or submitted to the index
C2_EmptyRejected ==
    LET Empty(d) == d.t = "dict" /\ (IdsAllEmpty(d) \/ IsEmpty(d.title)) IN
    /\ \A j \in Seen(Empty) :
          /\ sanitize_document(documents[j]) = NoneDoc
          /\ \A m \in 1..Len(origin) : origin[m] # j - 1
    /\ skipped >= Cardinality(Seen(Empty))
    /\ Len(actions) + Cardinality(Seen(Empty)) <= i
    /\ Len(submitted) <= Len(actions)
    /\ \A m \in 1..Len(submitted) : submitted[m] = actions[m]
C2_Witness ==
    /\ result = "indexed" /\ skipped >= 2 /\ success_count >= 1
    /\ \E j \in 1..i : documents[j].t = "dict" /\ IdsAllEmpty(documents[j])
    /\ \E j \in 1..i : documents[j].t = "dict" /\ IsEmpty(documents[j].title)

\* C3: every record sanitize_document accepts has, in its sanitized output, a
\* non-empty title and at least one non-empty identifier
C3_AcceptedNonEmpty ==
    (san_pc # "input" /\ sanitized.t = "dict") =>
        sanitized.title.s # <<>> /\ ~NoSanitizedId(sanitized)

\* C4: every accepted output satisfies all the bounds at once: title <= 500,
\* abstract <= 5000, full_text <= 100000, at most 20 authors each with
\* full_name <= 100, at most 20 keywords, journal title <= 200
C4_Bounds ==
    (san_pc # "input" /\ sanitized.t = "dict") =>
        /\ RLen(sanitized.title.s) <= 500
        /\ RLen(sanitized.abstract.s) <= 5000
        /\ RLen(sanitized.full_text.s) <= 100000
        /\ RLen(sanitized.authors.l) <= 20
        /\ \A k \in 1..Len(sanitized.authors.l) :
              RLen(sanitized.authors.l[k].c.full_name.s) <= 100
        /\ RLen(sanitized.keywords.l) <= 20
        /\ RLen(sanitized.journal.title.s) <= 200
C4_Witness ==
    /\ san_pc = "once" /\ sanitized.t = "dict"
    /\ RLen(doc.title.s) > 500 /\ RLen(sanitized.title.s) = 500
    /\ RLen(doc.abstract.s) > 5000 /\ RLen(sanitized.abstract.s) = 5000
    /\ RLen(doc.full_text.s) > 100000 /\ RLen(sanitized.full_text.s) = 100000
    /\ RLen(doc.authors.l) > 20 /\ RLen(sanitized.authors.l) = 20
    /\ RLen(sanitized.authors.l[1].c.full_name.s) = 100
    /\ RLen(doc.keywords.l) > 20 /\ RLen(sanitized.keywords.l) = 20
    /\ RLen(doc.journal.title.s) > 200 /\ RLen(sanitized.journal.title.s) = 200

\* C5: sanitization is idempotent: sanitizing an accepted output again
\* accepts it and returns it unchanged, field for field
C5_Idempotent ==
    (san_pc = "twice" /\ sanitized.t = "dict") => resanitized = sanitized

\* C6: sanitize_document is total and pure: for every input value, a dict
\* or not, it returns a sanitized record or None, never raises, and leaves
\* its input unchanged
C6_TotalPure ==
    /\ [](san_pc # "input" => sanitized.t \in {"dict", "none"})
    /\ [](san_pc = "twice" => resanitized.t \in {"dict", "none"})
    /\ [][doc' = doc]_vars
C6_Witness ==
    /\ san_pc = "twice" /\ doc.t = "other"
    /\ sanitized = NoneDoc /\ resanitized = NoneDoc

\* C7: the document_id of the action of an accepted record is the first
\* non-empty of its sanitized doi, pmcid, pmid, in that order, and the
\* positional doc_<n>, n the record's zero-based position in the batch,
\* only when all three are empty
C7_DocumentId ==
    /\ Len(origin) = Len(actions)
    /\ \A m \in 1..Len(actions) :
          LET n == origin[m]
              src == sanitize_document(documents[n + 1])
          IN /\ n < i /\ src.t = "dict" /\ actions[m]._source = src
             /\ (m > 1 => origin[m - 1] < n)
             /\ src.doi.s # <<>> => actions[m]._id = src.doi.s
             /\ (src.doi.s = <<>> /\ src.pmcid.s # <<>>) =>
                   actions[m]._id = src.pmcid.s
             /\ (src.doi.s = <<>> /\ src.pmcid.s = <<>> /\ src.pmid.s # <<>>) =>
                   actions[m]._id = src.pmid.s
             /\ NoSanitizedId(src) => actions[m]._id = Positional(n)
C7_Witness ==
    /\ pc = "done" /\ Len(actions) = 2 /\ skipped = 1
    /\ origin = <<0, 2>>
    /\ actions[1]._id = Lit(<<"b">>) /\ actions[1]._source.pmid.s = Lit(<<"c">>)
    /\ actions[2]._id = Positional(2)

\* C8: identifier assignment is deterministic: the same input record always
\* receives the same document_id, whatever its position in the batch
C8_Deterministic ==
    \A m1, m2 \in 1..Len(actions) :
        documents[origin[m1] + 1] = documents[origin[m2] + 1] =>
            actions[m1]._id = actions[m2]._id

\* a batch of exactly one record with all identifiers empty and a valid title
C9_Case ==
    /\ Len(documents) = 1 /\ documents[1].t = "dict"
    /\ IdsAllEmpty(documents[1])
    /\ documents[1].title.t = "str" /\ Strip(documents[1].title.s) # <<>>

\* C9 as stated: such a batch is submitted under a positional fallback id
\* and counted as succeeded, not skipped
C9_FallbackIndexed ==
    (pc = "done" /\ C9_Case) =>
        /\ Len(submitted) = 1 /\ submitted[1]._id = Positional(0)
        /\ success_count = 1 /\ skipped = 0

\* C9 amended: such a batch submits nothing to the index; its record is
\* rejected and counted as skipped, not succeeded, and gets no fallback id
C9_RejectedSkipped ==
    (pc = "done" /\ C9_Case) =>
        /\ submitted = <<>> /\ actions = <<>> /\ index = {}
        /\ skipped = 1 /\ success_count = 0 /\ error_count = 0
        /\ result = "no_actions"
C9_Witness == pc = "done" /\ C9_Case /\ skipped = 1

\* C10 as stated: within one bulk load no two index actions carry the same
\* document_id
C10_UniqueIds ==
    \A m1, m2 \in 1..Len(actions) :
        m1 # m2 => actions[m1]._id # actions[m2]._id

\* C10 amended: within one bulk load no two index actions that both use the
\* positional fallback carry the same document_id
C10_UniqueFallbackIds ==
    \A m1, m2 \in 1..Len(actions) :
        (/\ m1 # m2
         /\ NoSanitizedId(actions[m1]._source)
         /\ NoSanitizedId(actions[m2]._source)) =>
            actions[m1]._id # actions[m2]._id
C10_Witness ==
    /\ pc = "done" /\ Len(submitted) = 2
    /\ NoSanitizedId(actions[1]._source) /\ NoSanitizedId(actions[2]._source)
    /\ actions[1]._id = Positional(0) /\ actions[2]._id = Positional(1)

\* C11: a failed write of one document does not stop the others: every
\* submitted action yields exactly one outcome, counted as succeeded or as
\* failed, a chunk whose request cannot be completed has all its documents
\* counted as failed, and the chunks after it are still attempted
C11_EveryOutcomeCounted ==
    /\ success_count + error_count = yielded
    /\ pc = "done" =>
          /\ success_count + error_count = Len(submitted)
          /\ actions # <<>> => submitted = actions

\* a text with a character that strip() keeps
HasKept(v) == v.t = "str" /\ \E k \in 1..Len(v.s) : ~IsSpace(v.s[k].c)
\* a text with a character that _clean_text keeps
HasClean(v) ==
    v.t = "str" /\ \E k \in 1..Len(v.s) : ~IsSpace(v.s[k].c) /\ ~IsControl(v.s[k].c)
\* the source holds an identifier and a title that are not empty
Identified(src) == HasKept(src.doi) \/ HasKept(src.pmcid) \/ HasKept(src.pmid)
Titled(src) ==
    /\ src.title.present
    /\ \/ HasClean(src.title.text)
       \/ \E k \in 1..Len(src.title.kids) :
             HasClean(src.title.kids[k].text) \/ HasClean(src.title.kids[k].tail)

\* C19: parse_xml_file emits a record only if one of doi, pmcid, pmid is
\* non-empty and the title is non-empty after cleaning; for every other
\* source, and for a source whose parsing raises, it yields none and does
\* not raise
C19_EmitsOnlyIdentified ==
    ext_pc = "parsed" =>
        /\ extracted.t \in {"dict", "none"}
        /\ extracted.t = "dict" =>
              /\ extracted.doi.s # <<>> \/ extracted.pmcid.s # <<>> \/ extracted.pmid.s # <<>>
              /\ extracted.title.s # <<>>
              /\ source.wellformed /\ Identified(source) /\ Titled(source)
        /\ ~(source.wellformed /\ Identified(source) /\ Titled(source)) =>
              extracted = NoneDoc
C19_Witness ==
    /\ ext_pc = "parsed" /\ extracted.t = "dict"
    /\ extracted.doi.s = <<>> /\ extracted.pmcid.s = Lit(<<"b">>)
    /\ extracted.title.s = Lit(<<"i", " ", "x">>)

\* the characters are a calendar date written year-MM-DD
IsCalendarDate(chars) ==
    LET n == Len(chars)
        y == SubSeq(chars, 1, n - 6)
        m == SubSeq(chars, n - 4, n - 3)
        d == SubSeq(chars, n - 1, n)
    IN /\ n >= 7 /\ chars[n - 5] = "-" /\ chars[n - 2] = "-"
       /\ AllDigits(y) /\ AllDigits(m) /\ AllDigits(d)
       /\ ToInt(m) \in 1..12
       /\ ToInt(d) \in 1..DaysInMonth(ToInt(y), ToInt(m))
\* the year text holds a digit
HasDigit(v) == v.t = "str" /\ \E k \in 1..Len(v.s) : IsDigit(v.s[k].c)

\* C20: _parse_date omits the date when there is no year or the year holds
\* no digit group, and every date it emits is a valid calendar date
C20_ValidDate ==
    date_pc = "parsed" =>
        /\ ~HasDigit(source.date.year) => date_out = PyNone
        /\ date_out.t = "str" => IsCalendarDate(Expand(date_out.s))

RECURSIVE Flatten(_)
\* the batches one after the other
Flatten(batches) ==
    IF batches = <<>> THEN <<>> ELSE Head(batches) \o Flatten(Tail(batches))
RECURSIVE Records(_)
\* the records the extractor produces for the files, in file order
Records(files) ==
    IF files = <<>> THEN <<>>
    ELSE LET d == parse_xml_file(Head(files)) IN
         (IF d.t = "dict" THEN <<d>> ELSE <<>>) \o Records(Tail(files))

\* C12: with batch_size >= 1 the pending batch is flushed whenever it reaches
\* batch_size or the directory is exhausted: every record the extractor
\* produced is handed to bulk_index_pmc_documents in exactly one flush, in
\* file order, and no flush carries more than batch_size records, also when
\* a flush ends in an error
C12_EachRecordFlushedOnce ==
    dir_pc # "idle" =>
        /\ \A k \in 1..Len(handed) : Len(handed[k]) \in 1..batch_size
        /\ dir_pc = "file" =>
              /\ Len(dir_documents) < batch_size
              /\ Flatten(handed) \o dir_documents = Records(SubSeq(xml_files, 1, file_i))
        /\ dir_pc = "flush" =>
              Flatten(handed) = Records(SubSeq(xml_files, 1, file_i + 1))
        /\ dir_pc = "done" => Flatten(handed) = Records(xml_files)
C12_Witness ==
    /\ dir_pc = "done" /\ batch_size = 2 /\ Len(handed) = 2
    /\ Len(handed[1]) = 2 /\ Len(handed[2]) = 1
    /\ flush_results[1].result = "failed"
    /\ xml_files[1] = Unparseable

RECURSIVE SumOf(_, _)
\* the sum of one count over the flushes
SumOf(flushes, field) ==
    IF flushes = <<>> THEN 0 ELSE Head(flushes)[field] + SumOf(Tail(flushes), field)
\* the files whose extraction gave a record, and those that could not be parsed
Extractable(files) ==
    { k \in 1..Len(files) :
        files[k].wellformed /\ Identified(files[k]) /\ Titled(files[k]) }
FailedFiles(files) == { k \in 1..Len(files) : ~files[k].wellformed }

C14_ResolveOrder ==
    res_pc = "done" =>
        /\ \A d \in index : d._id = doc_id => resolved = d._source
        /\ (resolved.t = "dict" /\ \A d \in index : d._id # doc_id) =>
              \E d \in index : IdMatches(d, doc_id) /\ resolved = d._source
        /\ resolved = NoneDoc =>
              \A d \in index : d._id # doc_id /\ ~IdMatches(d, doc_id)

\* C15 as stated: an error of the key lookup other than not-found, and any
\* error of the search, leaves get_pmc_document_by_id as a failure; it never
\* returns None because of such an error
C15_ErrorsPropagate ==
    (res_pc = "done" /\ res_error # "none") => resolved.t = "raise"

\* C16 as stated: a search whose index request fails is reported to the
\* caller as a failure; search_pmc_documents never turns it into an empty
\* but successful result (empty list, total 0)
C16_FailureReported ==
    (search_failed /\ search_pc \in {"returned", "done"}) =>
        /\ ~(results = <<>> /\ total = 0)
        /\ search_pc = "done" => http_status = 500

\* a filter that was supplied
Given(v) == v.t = "str" /\ v.s # <<>>
ClausesOf(kind, field) ==
    { k \in 1..Len(filter_clauses) :
        filter_clauses[k].kind = kind /\ filter_clauses[k].field = field }
\* the filter has exactly one clause, carrying its value, when it was supplied,
\* and none when it was not
OneClause(kind, field, v) ==
    IF filters.t = "dict" /\ Given(v)
    THEN /\ Cardinality(ClausesOf(kind, field)) = 1
         /\ \A k \in ClausesOf(kind, field) : filter_clauses[k].value = v
    ELSE ClausesOf(kind, field) = {}
Bound(v) == IF Given(v) THEN v ELSE Missing

\* C17: the filters are a conjunction applied whatever the score: the query
\* holds exactly one filter clause per supplied filter among article_type,
\* journal, author, and one inclusive range clause when date_from or date_to
\* is supplied, carrying only the supplied bounds; a document of another
\* article type or with publication_date outside [date_from, date_to] is
\* never returned
C17_FiltersConjunction ==
    search_pc \in {"returned", "done"} =>
        /\ OneClause("term", "article_type", filters.article_type)
        /\ OneClause("term", "journal.title.keyword", filters.journal)
        /\ OneClause("nested", "authors.full_name", filters.author)
        /\ IF filters.t = "dict" /\ (Given(filters.date_from) \/ Given(filters.date_to))
           THEN /\ Cardinality(ClausesOf("range", "publication_date")) = 1
                /\ \A k \in ClausesOf("range", "publication_date") :
                      /\ filter_clauses[k].gte = Bound(filters.date_from)
                      /\ filter_clauses[k].lte = Bound(filters.date_to)
           ELSE ClausesOf("range", "publication_date") = {}
        /\ Len(filter_clauses) =
              Cardinality(ClausesOf("term", "article_type"))
              + Cardinality(ClausesOf("term", "journal.title.keyword"))
              + Cardinality(ClausesOf("nested", "authors.full_name"))
              + Cardinality(ClausesOf("range", "publication_date"))
        /\ \A k \in 1..Len(hits) :
              LET src == hits[k]._source IN
              /\ Given(filters.article_type) => src.article_type = filters.article_type
              /\ Given(filters.date_from) =>
                    /\ IsIndexedDate(src.publication_date)
                    /\ DateNum(src.publication_date) >= DateNum(filters.date_from)
              /\ Given(filters.date_to) =>
                    /\ IsIndexedDate(src.publication_date)
                    /\ DateNum(src.publication_date) <= DateNum(filters.date_to)
C17_Witness ==
    /\ search_pc = "done"
    /\ Given(filters.article_type) /\ Given(filters.date_from) /\ Given(filters.date_to)
    /\ Len(filter_clauses) = 2
    /\ Len(hits) = 1 /\ hits[1]._score = 1
    /\ \E s \in scored : s._id # hits[1]._id /\ s.score = MaxScore

\* the source fields a hit can hold, full_text apart
SourceFields ==
    { "doi", "pmcid", "pmid", "title", "abstract", "authors", "journal",
      "publication_date", "article_type", "keywords", "sections", "processed_at" }

\* C18 as stated: every SearchResult has all source fields of its hit
\* (full_text excluded), its field score is the hit's score and its field
\* highlights the hit's highlight snippets whenever the hit has any
C18_ScoreAndHighlights ==
    (search_pc = "done" /\ http_status = 200) =>
        \A k \in 1..Len(hits) :
            /\ shaped[k].score = PyInt(hits[k]._score)
            /\ hits[k].highlight.t # "missing" => shaped[k].highlights = hits[k].highlight
            /\ \A f \in SourceFields :
                  hits[k]._source[f].t # "missing" =>
                      f \in DOMAIN shaped[k] /\ shaped[k][f] = hits[k]._source[f]

\* the characters have the shape YYYY-MM-DD
HasDateShape(chars) ==
    /\ Len(chars) = 10
    /\ \A k \in {1, 2, 3, 4, 6, 7, 9, 10} : IsDigit(chars[k])
    /\ chars[5] = "-" /\ chars[8] = "-"

\* C25 as stated: sanitize_document keeps publication_date only if the value
\* has the exact shape YYYY-MM-DD; for every other value the sanitized record
\* has no publication_date
C25_ExactDateShape ==
    (san_pc # "input" /\ sanitized.t = "dict"
        /\ sanitized.publication_date.t # "missing") =>
            HasDateShape(Expand(sanitized.publication_date.s))

\* the first min(cap, k) of the k valid entries of a list, each cleaned
FirstValid(runs, IsValid(_), Clean(_), cap) ==
    LET valid == SelectSeq(runs, LAMBDA r : IsValid(r.c)) IN
    RTake(Norm([k \in 1..Len(valid) |-> [c |-> Clean(valid[k].c), n |-> valid[k].n]]),
          cap)
IsKeyword(k) == Truthy(k)
CleanKeyword(k) == Str(Stripped(k))

\* C26 as stated: the sanitized authors are exactly the first min(20, k) of
\* the k input authors that have a non-empty full_name, and the sanitized
\* keywords exactly the first min(20, m) of the m non-empty input keywords,
\* in original order
C26_FirstValidEntries ==
    (san_pc # "input" /\ sanitized.t = "dict") =>
        /\ doc.authors.t = "list" =>
              sanitized.authors.l = FirstValid(doc.authors.l, AuthorOk, CleanAuthor, 20)
        /\ doc.keywords.t = "list" =>
              sanitized.keywords.l = FirstValid(doc.keywords.l, IsKeyword, CleanKeyword, 20)

\* the non-empty trimmed texts, in order
TrimmedTexts(texts) ==
    LET kept == SelectSeq(texts, LAMBDA v : v.t = "str" /\ Strip(v.s) # <<>>)
    IN [k \in 1..Len(kept) |-> Strip(kept[k].s)]
\* the places of a sequence whose value does not occur before them
FirstSeen(seq) == { k \in 1..Len(seq) : \A j \in 1..(k - 1) : seq[j] # seq[k] }

\* C21: keyword extraction returns the distinct non-empty trimmed keyword
\* texts in first-seen order, compared case-sensitively
C21_DistinctFirstSeen ==
    (ext_pc = "parsed" /\ extracted.t = "dict") =>
        LET seq == TrimmedTexts(source.kwds)
            out == extracted.keywords.l
        IN /\ extracted.keywords.t = "list"
           /\ Len(out) = Cardinality(FirstSeen(seq))
           /\ \A k \in 1..Len(out) : out[k].n = 1 /\ out[k].c.t = "str"
           /\ \A a, b \in 1..Len(out) : a # b => out[a].c # out[b].c
           /\ \A a, b \in FirstSeen(seq) : a < b =>
                 \E p, q \in 1..Len(out) :
                     p < q /\ out[p].c.s = seq[a] /\ out[q].c.s = seq[b]
           /\ \A a \in FirstSeen(seq) : \E p \in 1..Len(out) : out[p].c.s = seq[a]
C21_Witness ==
    /\ ext_pc = "parsed"
    /\ source.kwds = <<S(<<"A", "I">>), S(<<"a", "i">>), S(<<" ", "A", "I", " ">>)>>
    /\ extracted.keywords = StrList(<<Lit(<<"A", "I">>), Lit(<<"a", "i">>)>>)

\* the non-empty identifiers of a record
OwnIds(d) == {d.doi.s, d.pmcid.s, d.pmid.s} \ {<<>>}
\* C30: a record the extractor emits is accepted by sanitize_document: the
\* loader counts no skip for it and builds one action, whose _id is one of
\* the record's own doi, pmcid or pmid and not the positional doc_<n>
C30_ExtractedAccepted ==
    (ext_pc = "parsed" /\ extracted.t = "dict" /\ pc = "loop") =>
        /\ skipped = 0
        /\ Len(actions) = 1
        /\ actions[1]._id \in OwnIds(extracted)
        /\ ~NoSanitizedId(actions[1]._source)
C30_Witness ==
    /\ ext_pc = "parsed" /\ pc = "loop" /\ Len(actions) = 1
    /\ extracted.doi.s = <<>> /\ extracted.pmcid.s = <<>>
    /\ extracted.pmid.s # <<>> /\ actions[1]._id = extracted.pmid.s

\* the documents in the index when flush k had completed
Flushed(k) == flush_results[k].index

\* C23 as stated: a document that a completed flush left in the index is
\* there, with the same content under its document_id, during and after every
\* later flush of the run and after the run is abandoned between two flushes
C23_FlushedStaySame ==
    \A k \in 1..Len(flush_results) : \A d \in Flushed(k) : d \in index

\* the actions bulk_index_pmc_documents builds from a batch
ActionsOf(batch) ==
    { [_id |-> DocId(sanitize_document(batch[j]), j - 1),
       _source |-> sanitize_document(batch[j])] :
      j \in {n \in 1..Len(batch) : sanitize_document(batch[n]).t # "none"} }
\* the actions of the flushes after flush k: the completed ones and the one running
LaterActions(k) == UNION { ActionsOf(handed[j]) : j \in (k + 1)..Len(handed) }

\* C23: every document_id that a completed flush left in the index stays in
\* the index during and after every later flush of the run and after the run
\* is abandoned between two flushes; the content under it changes only when
\* a later flush writes a record with the same document_id, and is then the
\* content of such a record
C23_FlushedStay ==
    \A k \in 1..Len(flush_results) : \A d \in Flushed(k) :
        \/ d \in index
        \/ \E e \in index : e._id = d._id /\ e \in LaterActions(k)
C23_Witness ==
    /\ dir_pc = "abandoned" /\ Len(flush_results) = 2
    /\ \E d \in Flushed(1) : d \notin index /\ \E e \in index : e._id = d._id
    /\ Flushed(2) = index

\* the documents of the chunk that no yield has accounted for
Uncounted == Len(actions) - (success_count + error_count)

\* C24: a chunk is requested at most 4 times, the wait before retry k is
\* min(600, 2 * 2^(k-1)), and when the load has ended after the last retry
\* every document is counted, the ones still failing as failed
C24_RetriesThenCounted ==
    /\ Len(requests) <= 4
    /\ \A k \in 1..Len(slept) :
          slept[k] = IF 600 < 2 * 2 ^ (k - 1) THEN 600 ELSE 2 * 2 ^ (k - 1)
    /\ retry_pc \in {"zip", "idle"} /\ requests # <<>> => Len(slept) = Len(requests) - 1
    /\ (pc = "done" /\ Len(requests) = 4) =>
          /\ Uncounted = 0
          /\ error_count >=
                Cardinality({n \in 1..Len(responses) : responses[n] # "ok"})

RECURSIVE Concat(_)
\* the lines of a file, block after block
Concat(blocks) == IF blocks = <<>> THEN <<>> ELSE Head(blocks) \o Concat(Tail(blocks))
\* the values of the lines of a file that are valid JSON, in file order
ValidValues(blocks) ==
    LET valid == SelectSeq(Concat(blocks), LAMBDA l : l.kind # "invalid")
    IN [n \in 1..Len(valid) |-> valid[n].value]

\* C29: load_jsonl yields each valid JSON line exactly once, in file order,
\* and skips the invalid ones, also when a decode error part-way through
\* the file triggers the Latin-1 fallback
C29_EachLineOnce ==
    encoding = "closed" => jsonl_yielded = ValidValues(jsonl_file)

RECURSIVE AllRuns(_)
\* the actions of a sequence of bulk writes, in the order they were written
AllRuns(writes) ==
    IF writes = <<>> THEN <<>>
    ELSE LET rest == AllRuns(Tail(writes))
             runs == Head(writes).actions
         IN runs \o rest
RECURSIVE Merged(_, _)
\* runs with consecutive runs of one file joined
Merged(acc, runs) ==
    IF runs = <<>> THEN acc ELSE Merged(AppendRun(acc, Head(runs)), Tail(runs))
\* every action of every part file once, in file order
WholeFiles(sizes) == [f \in 1..Len(sizes) |-> Run(f, 1, sizes[f])]

\* C28: when restore_data_from_split_files returns True, every action of
\* every part file was submitted in exactly one bulk write, in file order,
\* also when a bulk write raised while a file was being processed
C28_EveryActionOnce ==
    returned = "True" => Merged(<<>>, AllRuns(bulk_writes)) = WholeFiles(data_files)

\* every API process has left startup_event
StartupsCompleted ==
    \A p \in DOMAIN startup_pc : startup_pc[p] \in {"done", "raised"}

\* C27: API startup never deletes an existing index: for every interleaving
\* of the API processes, no delete request is made, and once all startups
\* have completed an index that existed and the documents written to it are
\* still present
C27_StartupKeepsIndex ==
    /\ es_deletes = 0
    /\ StartupsCompleted /\ startup_pc # <<>> =>
          /\ ever_existed => es_exists
          /\ ever_docs \subseteq es_docs

\* C22: when the Index Service cannot be reached at the start of an ingest
\* run, the run stops before any file is parsed and before any document
\* write or index deletion or creation is attempted
C22_AbortsWhenUnreachable ==
    (run_pc # "idle" /\ ~reachable) =>
        /\ file_i = 0 /\ total_processed = 0
        /\ handed = <<>> /\ submitted = <<>>
        /\ index_requests = 0
        /\ restore_pc = "idle" /\ bulk_writes = <<>>

====
